---- MODULE Spec2Model ----
(***************************************************************************)
(* PWAR play-out ring buffer (src/protocol/pwar_ring_buffer.c).            *)
(*                                                                         *)
(* The module-level static `ring_buffer` struct is the state.  Every       *)
(* public function of the file is one action.  The calls made by the test  *)
(* driver (src/protocol/test/pwar_ring_buffer_test.c) supply the inputs:   *)
(* ramps produced by fill_test_data, frame counts below, at and above the  *)
(* depth, NULL pointers and wrong channel counts.                          *)
(***************************************************************************)
EXTENDS Integers, Sequences, FiniteSets, TLC

\* ------------------------------------------------------------------ bounds
MaxDepth == 2
MaxExpected == 1
MaxFrames == 3
MaxXruns == 1

TEST_CHANNELS == 2
TEST_CHANNEL_STRIDE == 1000
\* memset(output_buffer, 0xAA, ...): a value no ramp and no silence holds
JUNK == -1

Depths == 1..MaxDepth
ChannelCounts == 1..TEST_CHANNELS
\* frame counts of a push or pop: 0, below, at and above the largest depth
FrameCounts == 0..(MaxDepth + 1)
ExpectedSizes == 1..MaxExpected

\* ------------------------------------------------- 32-bit unsigned integers
\* A uint32_t is kept as two 16-bit limbs <<high, low>> so that wrapping
\* subtraction and addition are computed modulo 2^32.
LIMB == 2^16

U32(n) == <<(n \div LIMB) % LIMB, n % LIMB>>

U32Add(a, b) ==
    LET lo == a[2] + b[2]
        hi == a[1] + b[1] + (lo \div LIMB)
    IN  <<hi % LIMB, lo % LIMB>>

U32Gt(a, b) == a[1] > b[1] \/ (a[1] = b[1] /\ a[2] > b[2])

\* mutant: a subtraction that stops at zero instead of wrapping
U32Sub_saturating(a, b) ==
    IF U32Gt(b, a) THEN <<0, 0>>
    ELSE <<(a[1] - b[1] - (IF a[2] < b[2] THEN 1 ELSE 0)) % LIMB, (a[2] - b[2]) % LIMB>>

U32Sub(a, b) ==
    LET lo == a[2] - b[2]
        borrow == IF lo < 0 THEN 1 ELSE 0
        hi == a[1] - b[1] - borrow
    IN  <<hi % LIMB, lo % LIMB>>

\* a % d for a small divisor d
U32Mod(a, d) == (((a[1] % d) * (LIMB % d)) + (a[2] % d)) % d

\* the value as an integer; words from 2^31 up are shown as 2^31 - 1, the
\* largest integer TLC represents (every depth and frame count here is smaller)
INT_LIMIT == 2^15
U32Val(a) == IF a[1] >= INT_LIMIT THEN (INT_LIMIT - 1) * LIMB + (LIMB - 1)
             ELSE a[1] * LIMB + a[2]

\* ------------------------------------------------------------------- state
NULL == <<>>

VARIABLES
    ring_buffer,            \* the static struct of pwar_ring_buffer.c
    expected_buffer_size,   \* third argument of the last pwar_ring_buffer_init call
    last,                   \* the last call: arguments, results, state before it
    next_base,              \* base value of the next ramp fill_test_data produces
    pushed,                 \* samples accepted by push since the last init, while no xrun
    popped,                 \* samples returned by pop since the last init, while no xrun
    xrun_reported,          \* an overrun or underrun was reported since the last init
    after_underrun          \* "fresh": a pop underran and no frame was moved since;
                            \* "drained": frames were popped since, none pushed;
                            \* "no": no underrun yet, or a push, init or free since

vars == <<ring_buffer, expected_buffer_size, last, next_base, pushed,
          popped, xrun_reported, after_underrun>>

\* the engine of libpwar.c; the ring-buffer specification leaves it untouched
\* and the engine specification leaves the ring buffer untouched
VARIABLES
    proc,           \* the process: the globals of libpwar.c, the struct
                    \* pwar_core_data in use, its threads and OS resources
    control,        \* position of the control thread (the caller of the API)
    internal,       \* the static struct of latency_manager.c
    rcv_buffer,     \* chunks held by the receive buffer (pwar_rcv_buffer)
    elast,          \* the last control call: function, argument, return value
    cb              \* the last completed audio callback: arguments and effects

evars == <<proc, control, internal, rcv_buffer, elast, cb>>

\* the engine does not exist in the ring-buffer test program
NoEngine ==
    /\ proc = NULL
    /\ control = NULL
    /\ internal = NULL
    /\ rcv_buffer = NULL
    /\ elast = NULL
    /\ cb = NULL

\* the latency manager, the command line and the two threads of the ring
\* buffer each have a specification of their own
VARIABLES
    lat,            \* latency_manager.c: its static struct, the clock, the calls
    cli,            \* pwar_cli.c: the arguments, what parse_arguments returned
    thr             \* the threads that push to and pop from the ring buffer

xvars == <<lat, cli, thr>>

NoExtra ==
    /\ lat = NULL
    /\ cli = NULL
    /\ thr = NULL

Zeros(k) == [i \in 1..k |-> 0]

\* static struct ... ring_buffer = {0};
ZeroStruct ==
    [buffer |-> NULL, depth |-> 0, channels |-> 0, write_index |-> 0,
     read_index |-> 0, available |-> 0, overruns |-> 0, underruns |-> 0]

NoCall ==
    [op |-> "none", n |-> 0, channels |-> 0, data |-> NULL, expected |-> 0,
     ret |-> 0, out |-> NULL, pre |-> ZeroStruct]

\* a call record: the function, its arguments (data: the array passed in, NULL
\* for the NULL pointer), its return value, the caller's array afterwards and the
\* struct before the call
Call(op, n, ch, data, ret, out) ==
    [op |-> op, n |-> n, channels |-> ch, data |-> data,
     expected |-> expected_buffer_size, ret |-> ret, out |-> out,
     pre |-> ring_buffer]

\* fill_test_data(buffer, channels, n_samples, base_value)
fill_test_data(channels, n_samples, base_value) ==
    [k \in 1..(n_samples * channels) |->
        base_value + ((k - 1) \div channels)
                   + (((k - 1) % channels) * TEST_CHANNEL_STRIDE)]

\* static struct ... ring_buffer = {0}, before the first call
RingInit ==
    /\ ring_buffer = ZeroStruct
    /\ expected_buffer_size = 0
    /\ last = NoCall
    /\ next_base = 1
    /\ pushed = <<>>
    /\ popped = <<>>
    /\ xrun_reported = FALSE
    /\ after_underrun = "no"

Init ==
    /\ RingInit
    /\ NoEngine
    /\ NoExtra

\* ------------------------------------------------------------ prefill_buffer
\* the zeroing loop of prefill_buffer, from iteration i on
RECURSIVE prefill_loop(_, _)
prefill_loop(rb, i) ==
    IF i < rb.depth
    THEN LET write_pos == rb.write_index * rb.channels
         IN  prefill_loop(
                 [rb EXCEPT
                    !.buffer = [p \in 1..Len(@) |->
                                   IF p - 1 >= write_pos /\ p - 1 < write_pos + rb.channels
                                   THEN 0 ELSE @[p]],
                    !.write_index = (@ + 1) % rb.depth],
                 i + 1)
    ELSE rb

\* mutant: the indices and the count are reset but the slots keep their samples
prefill_buffer_no_zeroing(rb) ==
    IF rb.buffer = NULL THEN rb
    ELSE [rb EXCEPT !.write_index = 0, !.read_index = 0, !.available = rb.depth]

prefill_buffer(rb) ==
    IF rb.buffer = NULL THEN rb
    ELSE LET looped == prefill_loop([rb EXCEPT !.write_index = 0, !.read_index = 0], 0)
         IN  [looped EXCEPT !.available = rb.depth]

\* ------------------------------------------------------ pwar_ring_buffer_free
pwar_ring_buffer_free(rb) ==
    [rb EXCEPT !.buffer = NULL, !.depth = 0, !.channels = 0,
               !.write_index = 0, !.read_index = 0, !.available = 0]

\* ------------------------------------------------------ pwar_ring_buffer_init
\* mutant: init without the pre-fill (the buffer starts empty)
pwar_ring_buffer_init_no_prefill(rb, depth, channels, alloc_ok) ==
    [buffer |-> IF alloc_ok THEN Zeros(depth * channels) ELSE NULL,
     depth |-> depth, channels |-> channels, write_index |-> 0, read_index |-> 0,
     available |-> 0, overruns |-> 0, underruns |-> 0]

\* mutant: a re-initialisation that keeps the overrun and underrun counters
pwar_ring_buffer_init_keep_stats(rb, depth, channels, alloc_ok) ==
    LET freed == IF rb.buffer # NULL THEN pwar_ring_buffer_free(rb) ELSE rb
        fresh == [freed EXCEPT !.depth = depth, !.channels = channels,
                               !.write_index = 0, !.read_index = 0,
                               !.available = 0]
    IN  IF alloc_ok
        THEN prefill_buffer([fresh EXCEPT !.buffer = Zeros(depth * channels)])
        ELSE [fresh EXCEPT !.buffer = NULL]

\* alloc_ok: calloc and pthread_mutex_init both succeed
pwar_ring_buffer_init(rb, depth, channels, alloc_ok) ==
    LET freed == IF rb.buffer # NULL THEN pwar_ring_buffer_free(rb) ELSE rb
        fresh == [freed EXCEPT !.depth = depth, !.channels = channels,
                               !.write_index = 0, !.read_index = 0,
                               !.available = 0, !.overruns = 0, !.underruns = 0]
    IN  IF alloc_ok
        THEN prefill_buffer([fresh EXCEPT !.buffer = Zeros(depth * channels)])
        ELSE [fresh EXCEPT !.buffer = NULL]

\* ------------------------------------------------------ pwar_ring_buffer_push
\* mutant: every channel of a frame receives the frame's first channel
RECURSIVE push_loop_first_channel(_, _, _, _, _)
push_loop_first_channel(rb, buffer, samples_to_write, channels, i) ==
    IF i < samples_to_write
    THEN LET write_pos == rb.write_index * rb.channels
         IN  push_loop_first_channel(
                 [rb EXCEPT
                    !.buffer = [p \in 1..Len(@) |->
                                   IF p - 1 >= write_pos /\ p - 1 < write_pos + rb.channels
                                   THEN buffer[(i * channels) + 1]
                                   ELSE @[p]],
                    !.write_index = (@ + 1) % rb.depth],
                 buffer, samples_to_write, channels, i + 1)
    ELSE rb

\* mutant: the write index is advanced without wrapping at depth
RECURSIVE push_loop_no_wrap(_, _, _, _, _)
push_loop_no_wrap(rb, buffer, samples_to_write, channels, i) ==
    IF i < samples_to_write
    THEN LET write_pos == (rb.write_index % rb.depth) * rb.channels
         IN  push_loop_no_wrap(
                 [rb EXCEPT
                    !.buffer = [p \in 1..Len(@) |->
                                   IF p - 1 >= write_pos /\ p - 1 < write_pos + rb.channels
                                   THEN buffer[(i * channels) + (p - 1 - write_pos) + 1]
                                   ELSE @[p]],
                    !.write_index = @ + 1],
                 buffer, samples_to_write, channels, i + 1)
    ELSE rb

\* the copy loop of push, from iteration i on
RECURSIVE push_loop(_, _, _, _, _)
push_loop(rb, buffer, samples_to_write, channels, i) ==
    IF i < samples_to_write
    THEN LET write_pos == rb.write_index * rb.channels
         IN  push_loop(
                 [rb EXCEPT
                    !.buffer = [p \in 1..Len(@) |->
                                   IF p - 1 >= write_pos /\ p - 1 < write_pos + rb.channels
                                   THEN buffer[(i * channels) + (p - 1 - write_pos) + 1]
                                   ELSE @[p]],
                    !.write_index = (@ + 1) % rb.depth],
                 buffer, samples_to_write, channels, i + 1)
    ELSE rb

\* the early returns of push: buffer not initialised, NULL input, channel mismatch
push_rejected(rb, buffer, channels) ==
    \/ rb.buffer = NULL \/ buffer = NULL
    \/ channels # rb.channels

\* mutant: a push that exactly fills the buffer counts as an overrun
push_overrun_detected_at_full(samples_to_write, free_space) ==
    ~U32Gt(free_space, samples_to_write)

\* if (samples_to_write > free_space)
push_overrun_detected(samples_to_write, free_space) ==
    U32Gt(samples_to_write, free_space)

\* mutant: the overrun is counted but the read index stays on the oldest frame
push_skip_oldest_keep_read(rb, samples_to_skip) ==
    [rb EXCEPT !.overruns = @ + 1]

\* mutant: the oldest frames are skipped but the overrun is not counted
push_skip_oldest_uncounted(rb, samples_to_skip) ==
    [rb EXCEPT !.read_index = U32Mod(U32Add(U32(@), samples_to_skip), rb.depth)]

\* the overrun branch on the counter and the read index
push_skip_oldest(rb, samples_to_skip) ==
    [rb EXCEPT
       !.overruns = @ + 1,
       !.read_index = U32Mod(U32Add(U32(@), samples_to_skip), rb.depth)]

\* the state and the return value of push(buffer, n_samples, channels) on rb
pwar_ring_buffer_push(rb, buffer, n_samples, channels) ==
    IF push_rejected(rb, buffer, channels) THEN [rb |-> rb, ret |-> -1]
    ELSE
      LET samples_to_write == U32(n_samples)
          free_space == U32Sub(U32(rb.depth), U32(rb.available))
          overrun == push_overrun_detected(samples_to_write, free_space)
          samples_to_skip == U32Sub(samples_to_write, free_space)
          skipped == IF overrun THEN push_skip_oldest(rb, samples_to_skip) ELSE rb
          \* available -= samples_to_skip, modulo 2^32
          available_skipped ==
              IF overrun THEN U32Sub(U32(rb.available), samples_to_skip)
              ELSE U32(rb.available)
          copied == push_loop(skipped, buffer, n_samples, channels, 0)
      IN  [rb |-> [copied EXCEPT
                     !.available = U32Val(U32Add(available_skipped, samples_to_write))],
           ret |-> 1]

\* ------------------------------------------------------- pwar_ring_buffer_pop
\* mutant: the read index is not advanced inside the loop
RECURSIVE pop_loop_stuck(_, _, _, _, _)
pop_loop_stuck(rb, samples, samples_to_read, channels, i) ==
    IF i < samples_to_read
    THEN LET read_pos == rb.read_index * rb.channels
         IN  pop_loop_stuck(
                 rb,
                 [k \in 1..Len(samples) |->
                     IF k - 1 >= i * channels /\ k - 1 < (i * channels) + rb.channels
                     THEN rb.buffer[read_pos + (k - 1 - (i * channels)) + 1]
                     ELSE samples[k]],
                 samples_to_read, channels, i + 1)
    ELSE [rb |-> [rb EXCEPT !.read_index = (@ + samples_to_read) % rb.depth],
          samples |-> samples]

\* mutant: the frames are copied out but the read index stays where it was
RECURSIVE pop_loop_peek(_, _, _, _, _)
pop_loop_peek(rb, samples, samples_to_read, channels, i) ==
    IF i < samples_to_read
    THEN LET read_pos == ((rb.read_index + i) % rb.depth) * rb.channels
         IN  pop_loop_peek(
                 rb,
                 [k \in 1..Len(samples) |->
                     IF k - 1 >= i * channels /\ k - 1 < (i * channels) + rb.channels
                     THEN rb.buffer[read_pos + (k - 1 - (i * channels)) + 1]
                     ELSE samples[k]],
                 samples_to_read, channels, i + 1)
    ELSE [rb |-> rb, samples |-> samples]

\* the copy loop of pop, from iteration i on; samples is the caller's array
RECURSIVE pop_loop(_, _, _, _, _)
pop_loop(rb, samples, samples_to_read, channels, i) ==
    IF i < samples_to_read
    THEN LET read_pos == rb.read_index * rb.channels
         IN  pop_loop(
                 [rb EXCEPT !.read_index = (@ + 1) % rb.depth],
                 [k \in 1..Len(samples) |->
                     IF k - 1 >= i * channels /\ k - 1 < (i * channels) + rb.channels
                     THEN rb.buffer[read_pos + (k - 1 - (i * channels)) + 1]
                     ELSE samples[k]],
                 samples_to_read, channels, i + 1)
    ELSE [rb |-> rb, samples |-> samples]

\* memset(samples, 0, n_samples * channels * sizeof(float))
memset_zero(samples, count) ==
    [k \in 1..Len(samples) |-> IF k <= count THEN 0 ELSE samples[k]]

\* mutant: pop without the channel-count check
pop_rejected_no_channel_check(rb, samples, channels) ==
    rb.buffer = NULL \/ samples = NULL

\* the early returns of pop: buffer not initialised, NULL output, channel mismatch
pop_rejected(rb, samples, channels) ==
    \/ rb.buffer = NULL \/ samples = NULL
    \/ channels # rb.channels

\* if (samples_to_read > ring_buffer.available)
pop_underrun_detected(samples_to_read, available) ==
    U32Gt(samples_to_read, available)

\* the state, the return value and the caller's array after pop(samples,
\* n_samples, channels) on rb
pwar_ring_buffer_pop(rb, samples, n_samples, channels) ==
    IF pop_rejected(rb, samples, channels) THEN [rb |-> rb, ret |-> -1, out |-> samples]
    ELSE IF pop_underrun_detected(U32(n_samples), U32(rb.available))
    THEN [rb |-> prefill_buffer([rb EXCEPT !.underruns = @ + 1]),
          ret |-> n_samples,
          out |-> memset_zero(samples, n_samples * channels)]
    ELSE LET read == pop_loop(rb, samples, n_samples, channels, 0)
         IN  [rb |-> [read.rb EXCEPT
                        !.available = U32Val(U32Sub(U32(@), U32(n_samples)))],
              ret |-> n_samples,
              out |-> read.samples]

pwar_ring_buffer_get_available == ring_buffer.available
pwar_ring_buffer_get_overruns == ring_buffer.overruns
pwar_ring_buffer_get_underruns == ring_buffer.underruns

pwar_ring_buffer_reset_stats(rb) == [rb EXCEPT !.overruns = 0, !.underruns = 0]

\* ----------------------------------------------------------------- actions
\* float buffer[channels * max(n, 1)], uninitialised or memset to 0xAA
JunkArray(channels, n) ==
    [k \in 1..(channels * (IF n = 0 THEN 1 ELSE n)) |-> JUNK]

\* the array a test passes to push: a ramp of n frames
InputArray(channels, n) ==
    IF n = 0 THEN JunkArray(channels, 0)
    ELSE fill_test_data(channels, n, next_base)


\* <<channels, is_null>> of a push or pop: any channel count with a valid
\* array, and the NULL pointer as the tests pass it (with TEST_CHANNELS)
PointerArgs ==
    {<<channels, FALSE>> : channels \in ChannelCounts} \cup {<<TEST_CHANNELS, TRUE>>}

DoInit ==
    \E depth \in Depths, channels \in ChannelCounts,
       expected \in ExpectedSizes, alloc_ok \in BOOLEAN :
        /\ expected <= depth
        /\ ring_buffer' = pwar_ring_buffer_init(ring_buffer, depth, channels, alloc_ok)
        /\ expected_buffer_size' = expected
        /\ last' = [Call("init", depth, channels, NULL, 0, NULL)
                        EXCEPT !.expected = expected]
        /\ next_base' = 1
        /\ pushed' = <<>>
        /\ popped' = <<>>
        /\ xrun_reported' = FALSE
        /\ after_underrun' = "no"
        /\ UNCHANGED <<evars, xvars>>

\* free is called on an initialised buffer only (its mutex exists only then)
DoFree ==
    /\ ring_buffer.buffer # NULL
    /\ ring_buffer' = pwar_ring_buffer_free(ring_buffer)
    /\ last' = Call("free", 0, 0, NULL, 0, NULL)
    /\ after_underrun' = "no"
    /\ UNCHANGED <<expected_buffer_size, next_base, pushed, popped, xrun_reported>>
    /\ UNCHANGED <<evars, xvars>>

DoPush ==
    \E n \in FrameCounts, arg \in PointerArgs :
        LET channels == arg[1]
            is_null == arg[2]
            data == IF is_null THEN NULL ELSE InputArray(channels, n)
            res == pwar_ring_buffer_push(ring_buffer, data, n, channels)
            ok == res.ret = 1
            overrun == res.rb.overruns # ring_buffer.overruns
        IN  /\ next_base + n <= MaxFrames + 1
            /\ res.rb.overruns <= MaxXruns
            /\ ring_buffer' = res.rb
            /\ last' = Call("push", n, channels, data, res.ret, data)
            /\ next_base' = IF ok THEN next_base + n ELSE next_base
            /\ xrun_reported' = (xrun_reported \/ overrun)
            /\ after_underrun' = IF ok THEN "no" ELSE after_underrun
            /\ pushed' = IF xrun_reported' THEN <<>>
                         ELSE IF ok /\ n > 0 THEN pushed \o data ELSE pushed
            /\ popped' = IF xrun_reported' THEN <<>> ELSE popped
            /\ UNCHANGED expected_buffer_size
            /\ UNCHANGED <<evars, xvars>>

DoPop ==
    \E n \in FrameCounts, arg \in PointerArgs :
        LET channels == arg[1]
            is_null == arg[2]
            samples == IF is_null THEN NULL ELSE JunkArray(channels, n)
            res == pwar_ring_buffer_pop(ring_buffer, samples, n, channels)
            underrun == res.rb.underruns # ring_buffer.underruns
        IN  /\ res.rb.underruns <= MaxXruns
            /\ ring_buffer' = res.rb
            /\ last' = Call("pop", n, channels, samples, res.ret, res.out)
            /\ xrun_reported' = (xrun_reported \/ underrun)
            /\ after_underrun' =
                   IF underrun THEN "fresh"
                   ELSE IF res.ret > 0 /\ after_underrun = "fresh" THEN "drained"
                   ELSE after_underrun
            /\ popped' = IF xrun_reported' THEN <<>>
                         ELSE IF res.ret > 0 THEN popped \o res.out ELSE popped
            /\ pushed' = IF xrun_reported' THEN <<>> ELSE pushed
            /\ UNCHANGED <<expected_buffer_size, next_base>>
            /\ UNCHANGED <<evars, xvars>>

DoResetStats ==
    /\ ring_buffer' = pwar_ring_buffer_reset_stats(ring_buffer)
    /\ last' = Call("reset_stats", 0, 0, NULL, 0, NULL)
    /\ UNCHANGED <<expected_buffer_size, next_base, pushed, popped, xrun_reported,
                   after_underrun>>
    /\ UNCHANGED <<evars, xvars>>

Next ==
    \/ DoInit
    \/ DoFree
    \/ DoPush
    \/ DoPop
    \/ DoResetStats

Spec == Init /\ [][Next]_vars

\* ------------------------------------------------------- reading the state
\* the readable frames of rb, oldest first, as interleaved samples
Readable(rb) ==
    [k \in 1..(rb.available * rb.channels) |->
        rb.buffer[(((rb.read_index + ((k - 1) \div rb.channels)) % rb.depth)
                       * rb.channels) + ((k - 1) % rb.channels) + 1]]

\* the last k samples of s (all of s when it is shorter)
LastSamples(s, k) ==
    IF Len(s) <= k THEN s ELSE SubSeq(s, Len(s) - k + 1, Len(s))

IsPrefix(s, t) == Len(s) <= Len(t) /\ SubSeq(t, 1, Len(s)) = s

\* the last call was a push or pop that passed the argument checks
Accepted(op) ==
    /\ last.op = op
    /\ last.pre.buffer # NULL
    /\ last.data # NULL
    /\ last.channels = last.pre.channels

\* the frames a pushed array holds
Pushed(call) == SubSeq(call.data, 1, call.n * call.channels)

\* what pop(n) returns when called in the current state
PopNow(n) ==
    pwar_ring_buffer_pop(ring_buffer, JunkArray(ring_buffer.channels, n), n,
                         ring_buffer.channels)

\* ------------------------------------------------------------------ claims

\* C1: after init and any sequence of pushes and pops of any size (also larger
\* than the depth, where the 32-bit subtraction wraps), the value returned by
\* pwar_ring_buffer_get_available() lies in 0..depth.
C1_AvailableWithinDepth ==
    /\ pwar_ring_buffer_get_available >= 0
    /\ pwar_ring_buffer_get_available <= ring_buffer.depth

C1_Witness ==
    /\ Accepted("push")
    /\ last.n > last.pre.depth
    /\ last.pre.available < last.pre.depth
    /\ pwar_ring_buffer_get_available = ring_buffer.depth

\* C2: a push of n >= 1 frames X with n > depth - available leaves exactly the
\* last depth frames of (previously readable frames ++ X) readable, oldest
\* first, and pop(depth) then returns them.
C2_OverrunKeepsNewest ==
    (Accepted("push") /\ last.n >= 1
       /\ last.n > last.pre.depth - last.pre.available)
    => LET kept == LastSamples(Readable(last.pre) \o Pushed(last),
                               ring_buffer.depth * ring_buffer.channels)
           pop == PopNow(ring_buffer.depth)
       IN  /\ Readable(ring_buffer) = kept
           /\ pop.ret = ring_buffer.depth
           /\ pop.out = kept
           /\ pop.rb.underruns = ring_buffer.underruns

C2_Witness ==
    /\ Accepted("push")
    /\ last.n > last.pre.depth
    /\ last.pre.depth >= 2
    /\ PopNow(ring_buffer.depth).out =
           LastSamples(Pushed(last), ring_buffer.depth * ring_buffer.channels)

\* the last call was an accepted pop that underran
Underran == Accepted("pop") /\ last.n > last.pre.available

FreshlyInitialised(rb) ==
    /\ rb.buffer # NULL
    /\ rb = pwar_ring_buffer_init(rb, rb.depth, rb.channels, TRUE)

C5_PrefillLeavesExpectedRoom ==
    ((last.op = "init" /\ ring_buffer.buffer # NULL) \/ Underran) =>
        pwar_ring_buffer_get_available = ring_buffer.depth - expected_buffer_size

\* C6 as stated: from any state, push(X) of n frames followed at once by a
\* pop(n) that does not underrun returns X.
C6_AsStated ==
    (Accepted("push") /\ last.n >= 1 /\ last.n <= ring_buffer.available) =>
        /\ PopNow(last.n).ret = last.n
        /\ PopNow(last.n).out = Pushed(last)

\* C6 amended: the round trip returns X when the buffer held no readable frame
\* before the push, or when n = depth.
C6_RoundTripFromEmpty ==
    (Accepted("push") /\ last.n >= 1 /\ last.n <= ring_buffer.available
       /\ (last.pre.available = 0 \/ last.n = last.pre.depth)) =>
        /\ PopNow(last.n).ret = last.n
        /\ PopNow(last.n).out = Pushed(last)
        /\ PopNow(last.n).rb.underruns = ring_buffer.underruns

\* a round trip of two stereo frames through an empty buffer
C6_Witness ==
    /\ Accepted("push")
    /\ last.pre.available = 0
    /\ last.n >= 2 /\ last.channels = 2
    /\ PopNow(last.n).out = Pushed(last)

C8_OverrunAccounting ==
    Accepted("push") =>
        LET overrun == last.n > last.pre.depth - last.pre.available
        IN  /\ last.ret = 1
            /\ ring_buffer.overruns = last.pre.overruns + (IF overrun THEN 1 ELSE 0)
            /\ overrun => ring_buffer.available = ring_buffer.depth
            /\ ring_buffer.underruns = last.pre.underruns

\* one overrun counted for a push that discards at least two frames
C8_Witness ==
    /\ Accepted("push")
    /\ last.n - (last.pre.depth - last.pre.available) >= 2
    /\ ring_buffer.overruns = last.pre.overruns + 1

\* C9: push(0) returns 1, pop(0) returns 0, and neither changes the struct or
\* the caller's array.
C9_ZeroLengthNoOp ==
    /\ (Accepted("push") /\ last.n = 0) =>
          (last.ret = 1 /\ ring_buffer = last.pre)
    /\ (Accepted("pop") /\ last.n = 0) =>
          (last.ret = 0 /\ ring_buffer = last.pre /\ last.out = last.data)

\* pop(0) on a completely empty buffer
C9_Witness ==
    /\ Accepted("pop") /\ last.n = 0
    /\ last.pre.available = 0
    /\ last.ret = 0

\* C10: a push or pop with a wrong channel count, a NULL pointer or on a
\* buffer that is not initialised returns -1 and changes nothing.
C10_InvalidCallsRejected ==
    (last.op \in {"push", "pop"} /\ ~Accepted(last.op)) =>
        /\ last.ret = -1
        /\ ring_buffer = last.pre
        /\ last.out = last.data

\* a pop with the wrong channel count on an initialised buffer
C10_Witness ==
    /\ last.op = "pop"
    /\ last.pre.buffer # NULL /\ last.data # NULL
    /\ last.channels # last.pre.channels
    /\ last.n >= 1
    /\ last.ret = -1

\* available right after an init of the zero-initialised struct
FreshAvailable(depth, channels) ==
    pwar_ring_buffer_init(ZeroStruct, depth, channels, TRUE).available

MaxPackets == 1
\* data->seq is kept modulo MaxSeq + 1
MaxSeq == 1
\* largest n_samples of an audio period
MaxPeriod == 2

DEFAULT_STREAM_PORT == 8321
AUDIO_BACKEND_PIPEWIRE == 1
AUDIO_BACKEND_SIMULATED == 2
EXIT_FAILURE == 1
\* sizeof(pwar_packet_t): uint16_t n_samples, padding to 8, four uint64_t,
\* PWAR_CHANNELS * PWAR_PACKET_MAX_CHUNK_SIZE floats
sizeof_pwar_packet_t == 1064
PWAR_PACKET_MAX_CHUNK_SIZE == 128

\* ------------------------------------------------------------- pwar_config_t
\* the configuration the command line produces without options
DefaultConfig ==
    [buffer_size |-> 32, ring_buffer_depth |-> 2048,
     stream_ip |-> "192.168.66.3", stream_port |-> DEFAULT_STREAM_PORT,
     backend_type |-> AUDIO_BACKEND_SIMULATED,
     passthrough_test |-> 0, oneshot_mode |-> 0]

\* a second value of every field
OtherConfig ==
    [buffer_size |-> 64, ring_buffer_depth |-> 4096,
     stream_ip |-> "192.168.1.100", stream_port |-> 9000,
     backend_type |-> AUDIO_BACKEND_PIPEWIRE,
     passthrough_test |-> 1, oneshot_mode |-> 1]

\* static pwar_config_t g_current_config; (zero-initialised)
ZeroConfig ==
    [buffer_size |-> 0, ring_buffer_depth |-> 0, stream_ip |-> "",
     stream_port |-> 0, backend_type |-> 0,
     passthrough_test |-> 0, oneshot_mode |-> 0]

ConfigFields == DOMAIN DefaultConfig

\* the configurations passed to the API: the default one and every
\* configuration that differs from it in one field
Configs ==
    {DefaultConfig} \cup
    {[DefaultConfig EXCEPT ![f] = OtherConfig[f]] : f \in ConfigFields}

\* a build with neither HAVE_ALSA nor HAVE_PIPEWIRE
audio_backend_is_available(type) == type = AUDIO_BACKEND_SIMULATED

\* ---------------------------------------------------------------- the process
\* the process before the first API call
NoProc ==
    [g_pwar_initialized |-> 0, g_pwar_running |-> 0,
     g_current_config |-> ZeroConfig,
     g_pwar_data |-> NULL,      \* NULL or <<"data">>: the pointer
     data |-> NULL,             \* the struct pwar_core_data in use, NULL if none
     recv_thread |-> "none",    \* "none", "loop", "recvfrom", "exited"
     cancel_pending |-> FALSE,  \* pthread_cancel was called on the receive thread
     orphans |-> 0,             \* receive threads whose handle was overwritten
     audio_thread |-> "none",   \* "none", "idle", "callback", "wait", "exited"
     sockets |-> 0,             \* open sockets of the process
     port_bound |-> FALSE,      \* an open socket is bound to DEFAULT_STREAM_PORT
     sync_objects |-> 0,        \* initialised mutexes and condition variables
     backends |-> 0,            \* allocated audio_backend_t objects
     exited |-> FALSE]          \* exit() was called

\* exit(EXIT_FAILURE): the process is gone, with its threads and resources
Exited == [NoProc EXCEPT !.exited = TRUE]

\* the steps of pwar_init that can fail
InitFailures ==
    {"none", "malloc", "socket", "recv_socket", "bind",
     "backend_create", "backend_init"}

\* memset(data, 0, ...); data->config = *config;
ZeroData(config) ==
    [config |-> config, sockfd |-> 0, recv_sockfd |-> 0, seq |-> 0,
     packet_available |-> 0, audio_backend |-> NULL,
     current_windows_buffer_size |-> 0, should_stop |-> 0]

\* setup_socket: exits the process when socket() fails
setup_socket(p, fail) ==
    IF fail = "socket" THEN Exited
    ELSE [p EXCEPT !.data.sockfd = p.sockets + 3, !.sockets = p.sockets + 1]

\* setup_recv_socket: exits the process when socket() or bind() fails; bind
\* fails when the port is held by another open socket
setup_recv_socket(p, fail) ==
    IF fail = "recv_socket" \/ fail = "bind" \/ p.port_bound THEN Exited
    ELSE [p EXCEPT !.data.recv_sockfd = p.sockets + 3, !.sockets = p.sockets + 1,
                   !.port_bound = TRUE]

\* init_core_data, on the struct p.data
init_core_data(p, config, fail) ==
    LET p0 == [p EXCEPT !.data = ZeroData(config)]
        p1 == setup_socket(p0, fail)
        p2 == IF p1.exited THEN p1 ELSE setup_recv_socket(p1, fail)
        p3 == [p2 EXCEPT !.sync_objects = p2.sync_objects + 3]
        p4 == [p3 EXCEPT !.data.audio_backend = [running |-> 0],
                         !.backends = p3.backends + 1]
    IN  IF p2.exited THEN [p |-> p2, ret |-> EXIT_FAILURE]
        ELSE IF ~audio_backend_is_available(config.backend_type)
        THEN [p |-> p3, ret |-> -1]
        ELSE IF fail = "backend_create" THEN [p |-> p3, ret |-> -1]
        ELSE IF fail = "backend_init" THEN [p |-> p3, ret |-> -1]
        ELSE [p |-> p4, ret |-> 0]

\* pthread_create(&thread, NULL, receiver_thread, data): a thread the handle
\* still referred to can no longer be joined
pthread_create(p) ==
    [p EXCEPT !.recv_thread = "loop", !.cancel_pending = FALSE,
              !.orphans = IF p.recv_thread = "none" THEN p.orphans
                          ELSE p.orphans + 1]

\* mutant: pwar_init without the g_pwar_initialized guard
pwar_init_unguarded(p, config, fail) ==
    LET p1 == [p EXCEPT !.g_current_config = config]
        r == init_core_data(p1, config, fail)
    IN  IF fail = "malloc" THEN [p |-> p1, ret |-> -1]
        ELSE IF r.p.exited THEN r
        ELSE IF r.ret < 0
        THEN [p |-> [r.p EXCEPT !.data = NULL, !.g_pwar_data = NULL], ret |-> -1]
        ELSE [p |-> [pthread_create(r.p) EXCEPT !.g_pwar_data = <<"data">>,
                                                !.g_pwar_initialized = 1],
              ret |-> 0]

pwar_init(p, config, fail) ==
    LET p1 == [p EXCEPT !.g_current_config = config]
        r == init_core_data(p1, config, fail)
    IN  IF p.g_pwar_initialized = 1 THEN [p |-> p, ret |-> -1]
        ELSE IF fail = "malloc" THEN [p |-> p1, ret |-> -1]
        ELSE IF r.p.exited THEN r
        ELSE IF r.ret < 0
        THEN [p |-> [r.p EXCEPT !.data = NULL, !.g_pwar_data = NULL], ret |-> -1]
        ELSE [p |-> [pthread_create(r.p) EXCEPT !.g_pwar_data = <<"data">>,
                                                !.g_pwar_initialized = 1],
              ret |-> 0]

\* ------------------------------------------------------- pwar_update_config
pwar_requires_restart(old_config, new_config) ==
    \/ old_config.buffer_size # new_config.buffer_size
    \/ old_config.stream_ip # new_config.stream_ip
    \/ old_config.stream_port # new_config.stream_port
    \/ old_config.backend_type # new_config.backend_type

pwar_update_config(p, config) ==
    IF p.g_pwar_initialized = 0 THEN [p |-> p, ret |-> -1]
    ELSE IF pwar_requires_restart(p.g_current_config, config)
    THEN [p |-> p, ret |-> -2]
    ELSE [p |-> [p EXCEPT !.data.config.passthrough_test = config.passthrough_test,
                          !.data.config.oneshot_mode = config.oneshot_mode,
                          !.g_current_config = config],
          ret |-> 0]

\* ------------------------------------------------------- threads of the process
\* mutant: a join that returns while the thread is still running
pthread_join_returns_early(thread) == TRUE

\* pthread_join(thread) returns once the thread has terminated
pthread_join_returns(thread) == thread = "exited"

\* the thread state after a join
joined(thread) == IF thread = "exited" THEN "none" ELSE thread

\* mutant: a cancellation request that never reaches the thread
pthread_cancel_lost(p) == p

\* pthread_cancel(thread): acted upon at the thread's next cancellation point
pthread_cancel(p) == [p EXCEPT !.cancel_pending = TRUE]

\* ------------------------------------------------- the backend (simulated)
\* simulated_start; start_ok: pthread_create of the audio thread succeeds
audio_backend_start(p, start_ok) ==
    IF p.data.audio_backend = NULL THEN [p |-> p, ret |-> -1]
    ELSE IF p.data.audio_backend.running = 1 THEN [p |-> p, ret |-> 0]
    ELSE IF ~start_ok THEN [p |-> p, ret |-> -1]
    ELSE [p |-> [p EXCEPT !.data.audio_backend.running = 1,
                          !.audio_thread = "idle"],
          ret |-> 0]

\* simulated_stop has to join the audio thread
stop_joins(p) ==
    /\ p.data.audio_backend # NULL
    /\ p.data.audio_backend.running = 1

\* simulated_stop up to its pthread_join
audio_backend_stop(p) ==
    IF stop_joins(p) THEN [p EXCEPT !.data.audio_backend.running = 0] ELSE p

\* simulated_stop from its pthread_join on
audio_backend_stopped(p) == [p EXCEPT !.audio_thread = joined(p.audio_thread)]

\* audio_backend_cleanup of a stopped backend, and data->audio_backend = NULL
audio_backend_cleanup(p) ==
    IF p.data.audio_backend = NULL THEN p
    ELSE [p EXCEPT !.data.audio_backend = NULL, !.backends = p.backends - 1]

\* ---------------------------------------------------- pwar_start, pwar_stop
\* mutant: pwar_start without the g_pwar_running guard
pwar_start_while_running(p, start_ok) ==
    LET r == audio_backend_start(p, start_ok)
    IN  IF p.g_pwar_initialized = 0 THEN [p |-> p, ret |-> -1]
        ELSE IF r.ret < 0 THEN [p |-> p, ret |-> -1]
        ELSE [p |-> [r.p EXCEPT !.g_pwar_running = 1], ret |-> 0]

pwar_start(p, start_ok) ==
    LET r == audio_backend_start(p, start_ok)
    IN  IF p.g_pwar_initialized = 0 \/ p.g_pwar_running = 1
        THEN [p |-> p, ret |-> -1]
        ELSE IF r.ret < 0 THEN [p |-> p, ret |-> -1]
        ELSE [p |-> [r.p EXCEPT !.g_pwar_running = 1], ret |-> 0]

\* mutant: a pwar_stop that also tells the receive thread to stop
pwar_stop_returns_stopping_receiver(p) ==
    [audio_backend_stopped(p) EXCEPT !.g_pwar_running = 0, !.data.should_stop = 1]

\* pwar_stop from the return of audio_backend_stop on
pwar_stop_returns(p) == [audio_backend_stopped(p) EXCEPT !.g_pwar_running = 0]

\* ------------------------------------------------------------- pwar_cleanup
\* g_pwar_data->should_stop = 1; pthread_cancel(g_recv_thread);
cleanup_signal(p) == pthread_cancel([p EXCEPT !.data.should_stop = 1])

\* close(fd) for the two sockets of the struct
close_sockets(p) ==
    LET closed == (IF p.data.sockfd > 0 THEN 1 ELSE 0)
                  + (IF p.data.recv_sockfd > 0 THEN 1 ELSE 0)
    IN  [p EXCEPT !.sockets = p.sockets - closed,
                  !.port_bound = IF p.data.recv_sockfd > 0 THEN FALSE
                                 ELSE p.port_bound]

\* pthread_mutex_destroy (twice) and pthread_cond_destroy
destroy_sync_objects(p) == [p EXCEPT !.sync_objects = p.sync_objects - 3]

\* pwar_cleanup from the return of pthread_join on
cleanup_release(p) ==
    LET p1 == [p EXCEPT !.recv_thread = joined(p.recv_thread)]
        p2 == destroy_sync_objects(close_sockets(audio_backend_cleanup(p1)))
    IN  [p2 EXCEPT !.data = NULL, !.g_pwar_data = NULL, !.g_pwar_initialized = 0,
                   !.cancel_pending = FALSE]

\* --------------------------------------------------- the ghost call records
NoECall == [op |-> "none", ret |-> 0, packets |-> 0]

\* a control call that returned: the function and its return value; packets
\* counts the packets the receive thread has processed since it returned
ECall(op, ret) == [op |-> op, ret |-> ret, packets |-> 0]

NoCallback ==
    [state |-> "none", n |-> 0, out_left |-> NULL, out_right |-> NULL,
     seq |-> 0, sent |-> 0, took |-> 0, xruns |-> 0, steps |-> <<>>]

\* the input of a period: n distinct samples
Period(n) == [i \in 1..n |-> i]

\* an output array the callback has not written
Unwritten(n) == [i \in 1..n |-> JUNK]

\* the samples of a packet or chunk received from the peer
PeerSamples(n) == [i \in 1..n |-> 100 + i]

\* ----------------------------------------------------- latency_manager.c
\* latency_manager_process_packet_server, as the receive thread sees it: the
\* packet is folded into the statistics of the static struct
\* (process_latency_stat: stat->count++); the timestamps and the report of
\* every two seconds are in the specification of latency_manager.c below
latency_manager_process_packet_server(st) == [st EXCEPT !.count = st.count + 1]

\* ------------------------------------------------------ pwar_rcv_buffer
\* pwar_rcv_buffer_add_buffer: one more chunk is ready in the static buffer
pwar_rcv_buffer_add_buffer(rcv) == rcv + 1

\* pwar_rcv_get_chunk: takes a chunk if one is ready
pwar_rcv_get_chunk(rcv) ==
    IF rcv >= 1 THEN [rcv |-> rcv - 1, ok |-> TRUE] ELSE [rcv |-> rcv, ok |-> FALSE]

\* ------------------------------------------------- audio_process_callback
\* data->seq++ (uint32_t), kept modulo MaxSeq + 1
NextSeq(seq) == (seq + 1) % (MaxSeq + 1)

\* process_one_shot up to the wait for the response; send_ok: sendto succeeds
process_one_shot(data, rcv, in, n_samples, send_ok) ==
    [data |-> [data EXCEPT !.seq = NextSeq(data.seq)], rcv |-> rcv,
     out_left |-> Unwritten(n_samples), out_right |-> Unwritten(n_samples),
     sent |-> 1, took |-> 0, xruns |-> 0, wait |-> send_ok,
     \* the statements executed, in order
     steps |-> <<"seq", "copy_in", "timestamp", "sendto">>]

\* process_one_shot from the end of the wait on
one_shot_response(data, n_samples) ==
    IF data.packet_available = 1
    THEN [data |-> [data EXCEPT !.packet_available = 0],
          out_left |-> PeerSamples(n_samples), out_right |-> PeerSamples(n_samples),
          xruns |-> 0, steps |-> <<"timedwait", "copy_latest_packet">>]
    ELSE [data |-> data, out_left |-> Zeros(n_samples),
          out_right |-> Zeros(n_samples), xruns |-> 1,
          steps |-> <<"timedwait", "report_xrun", "silence">>]

\* mutant: the chunk is taken before the packet is stamped and sent
process_ping_pong_take_first(data, rcv, in, n_samples, send_ok) ==
    LET chunk == pwar_rcv_get_chunk(rcv)
        out == IF chunk.ok THEN PeerSamples(n_samples) ELSE Zeros(n_samples)
    IN  [data |-> [data EXCEPT !.seq = NextSeq(data.seq)], rcv |-> chunk.rcv,
         out_left |-> out, out_right |-> out,
         sent |-> 1, took |-> rcv - chunk.rcv,
         xruns |-> IF chunk.ok THEN 0 ELSE 1, wait |-> FALSE,
         steps |-> <<"seq", "copy_in", "pwar_rcv_get_chunk">>
                   \o (IF chunk.ok THEN <<>> ELSE <<"report_xrun">>)
                   \o <<"timestamp", "sendto", "copy_out">>]

process_ping_pong(data, rcv, in, n_samples, send_ok) ==
    LET chunk == pwar_rcv_get_chunk(rcv)
        out == IF chunk.ok THEN PeerSamples(n_samples) ELSE Zeros(n_samples)
    IN  [data |-> [data EXCEPT !.seq = NextSeq(data.seq)], rcv |-> chunk.rcv,
         out_left |-> out, out_right |-> out,
         sent |-> 1, took |-> rcv - chunk.rcv,
         xruns |-> IF chunk.ok THEN 0 ELSE 1, wait |-> FALSE,
         \* the statements executed, in order
         steps |-> <<"seq", "copy_in", "timestamp", "sendto", "pwar_rcv_get_chunk">>
                   \o (IF chunk.ok THEN <<>> ELSE <<"report_xrun">>)
                   \o <<"copy_out">>]

\* mutant: a passthrough that also numbers and sends a packet
passthrough_sending(data, rcv, in, n_samples) ==
    [data |-> [data EXCEPT !.seq = NextSeq(data.seq)], rcv |-> rcv,
     out_left |-> in, out_right |-> in,
     sent |-> 1, took |-> 0, xruns |-> 0, wait |-> FALSE,
     steps |-> <<"seq", "sendto", "copy_out">>]

\* the passthrough branch of audio_process_callback
passthrough(data, rcv, in, n_samples) ==
    [data |-> data, rcv |-> rcv, out_left |-> in, out_right |-> in,
     sent |-> 0, took |-> 0, xruns |-> 0, wait |-> FALSE,
     steps |-> <<"copy_out">>]

audio_process_callback(data, rcv, in, n_samples, send_ok) ==
    IF data.config.passthrough_test # 0 THEN passthrough(data, rcv, in, n_samples)
    ELSE IF data.config.oneshot_mode # 0
    THEN process_one_shot(data, rcv, in, n_samples, send_ok)
    ELSE process_ping_pong(data, rcv, in, n_samples, send_ok)

\* --------------------------------------------------------- receiver_thread
\* the datagrams recvfrom can return: the length (-1 for an error) and, for
\* a datagram read as a packet, its n_samples and num_packets fields
Datagrams ==
    [len : {-1, 0, sizeof_pwar_packet_t - 1, sizeof_pwar_packet_t,
            sizeof_pwar_packet_t + 1},
     n_samples : {0, PWAR_PACKET_MAX_CHUNK_SIZE, PWAR_PACKET_MAX_CHUNK_SIZE + 1},
     num_packets : {1}]

\* the body of the receive loop for a datagram of sizeof(pwar_packet_t)
receive_packet(data, rcv, st, packet) ==
    LET d == [data EXCEPT !.current_windows_buffer_size =
                              packet.n_samples * packet.num_packets]
    IN  [data |-> IF d.config.oneshot_mode # 0
                  THEN [d EXCEPT !.packet_available = 1] ELSE d,
         rcv |-> IF d.config.oneshot_mode # 0 THEN rcv
                 ELSE pwar_rcv_buffer_add_buffer(rcv),
         internal |-> latency_manager_process_packet_server(st)]

\* the body of the receive loop for the datagram recvfrom returned; the
\* latency-info datagram of the peer is not among Datagrams
receive_datagram(data, rcv, st, dgram) ==
    IF dgram.len = sizeof_pwar_packet_t
    THEN receive_packet(data, rcv, st, dgram)
    ELSE [data |-> data, rcv |-> rcv, internal |-> st]

\* ------------------------------------------------------------ engine actions
EngineInit ==
    /\ proc = NoProc
    /\ control = "idle"
    /\ internal = [count |-> 0]
    /\ rcv_buffer = 0
    /\ elast = NoECall
    /\ cb = NoCallback
    /\ RingInit
    /\ NoExtra

\* pwar_init(config)
DoPwarInit ==
    \E config \in Configs, fail \in InitFailures :
        LET r == pwar_init(proc, config, fail)
        IN  /\ control = "idle"
            /\ proc' = r.p
            /\ control' = IF r.p.exited THEN "exited" ELSE "idle"
            /\ elast' = ECall("pwar_init", r.ret)
            /\ UNCHANGED <<internal, rcv_buffer, cb>>
            /\ UNCHANGED <<vars, xvars>>

\* pwar_start()
DoPwarStart ==
    \E start_ok \in BOOLEAN :
        LET r == pwar_start(proc, start_ok)
        IN  /\ control = "idle"
            /\ proc' = r.p
            /\ elast' = ECall("pwar_start", r.ret)
            /\ UNCHANGED <<control, internal, rcv_buffer, cb>>
            /\ UNCHANGED <<vars, xvars>>

\* pwar_stop(), up to the join inside audio_backend_stop: the state, the return
\* value, and the position from which the call goes on
pwar_stop(p) ==
    IF p.g_pwar_running = 0 THEN [p |-> p, ret |-> -1, control |-> "idle"]
    ELSE IF stop_joins(p)
    THEN [p |-> audio_backend_stop(p), ret |-> 0, control |-> "pwar_stop"]
    ELSE [p |-> pwar_stop_returns(p), ret |-> 0, control |-> "idle"]

DoPwarStop ==
    LET r == pwar_stop(proc)
    IN  /\ control = "idle"
        /\ proc' = r.p
        /\ control' = r.control
        /\ elast' = IF r.control = "idle" THEN ECall("pwar_stop", r.ret) ELSE elast
        /\ UNCHANGED <<internal, rcv_buffer, cb>>
        /\ UNCHANGED <<vars, xvars>>

\* pwar_stop(), from the join on
PwarStopReturns ==
    /\ control = "pwar_stop"
    /\ pthread_join_returns(proc.audio_thread)
    /\ proc' = pwar_stop_returns(proc)
    /\ control' = "idle"
    /\ elast' = ECall("pwar_stop", 0)
    /\ UNCHANGED <<internal, rcv_buffer, cb>>
    /\ UNCHANGED <<vars, xvars>>

\* pwar_cleanup() once the engine is not running: up to the join of the
\* receive thread, or the return when the engine is not initialised
cleanup_stopped(p) ==
    IF p.g_pwar_initialized = 1
    THEN [p |-> cleanup_signal(p), control |-> "cleanup_join"]
    ELSE [p |-> p, control |-> "idle"]

\* pwar_cleanup(), up to its first join
pwar_cleanup(p) ==
    IF p.g_pwar_running = 1 /\ stop_joins(p)
    THEN [p |-> audio_backend_stop(p), control |-> "cleanup_stop"]
    ELSE IF p.g_pwar_running = 1 THEN cleanup_stopped(pwar_stop_returns(p))
    ELSE cleanup_stopped(p)

DoPwarCleanup ==
    LET r == pwar_cleanup(proc)
    IN  /\ control = "idle"
        /\ proc' = r.p
        /\ control' = r.control
        /\ elast' = IF r.control = "idle" THEN ECall("pwar_cleanup", 0) ELSE elast
        /\ UNCHANGED <<internal, rcv_buffer, cb>>
        /\ UNCHANGED <<vars, xvars>>

\* pwar_cleanup(), from the return of pwar_stop on
CleanupStopReturns ==
    LET r == cleanup_stopped(pwar_stop_returns(proc))
    IN  /\ control = "cleanup_stop"
        /\ pthread_join_returns(proc.audio_thread)
        /\ proc' = r.p
        /\ control' = r.control
        /\ elast' = IF r.control = "idle"
                    THEN ECall("pwar_cleanup", 0) ELSE elast
        /\ UNCHANGED <<internal, rcv_buffer, cb>>
        /\ UNCHANGED <<vars, xvars>>

\* pwar_cleanup(), from the join of the receive thread on
CleanupJoinReturns ==
    /\ control = "cleanup_join"
    /\ pthread_join_returns(proc.recv_thread)
    /\ proc' = cleanup_release(proc)
    /\ control' = "idle"
    /\ elast' = ECall("pwar_cleanup", 0)
    /\ UNCHANGED <<internal, rcv_buffer, cb>>
    /\ UNCHANGED <<vars, xvars>>

\* pwar_update_config(config)
DoPwarUpdateConfig ==
    \E config \in Configs :
        LET r == pwar_update_config(proc, config)
        IN  /\ control = "idle"
            /\ proc' = r.p
            /\ elast' = ECall("pwar_update_config", r.ret)
            /\ UNCHANGED <<control, internal, rcv_buffer, cb>>
            /\ UNCHANGED <<vars, xvars>>

\* ------------------------------------------------------------- pwar_cli_run
\* main of pwar_cli.c calls pwar_cli_run once, as the first use of the
\* library, and returns its result; up to the creation of the receive thread
DoCliRun ==
    \E config \in Configs, fail \in InitFailures \ {"malloc"} :
        LET r == init_core_data(proc, config, fail)
        IN  /\ control = "idle"
            /\ elast = NoECall
            /\ IF r.p.exited
               THEN /\ proc' = r.p
                    /\ control' = "exited"
                    /\ elast' = ECall("pwar_cli_run", r.ret)
               ELSE IF r.ret < 0
               THEN /\ proc' = [r.p EXCEPT !.data = NULL]
                    /\ control' = "exited"
                    /\ elast' = ECall("pwar_cli_run", -1)
               ELSE /\ proc' = pthread_create(r.p)
                    /\ control' = "cli_start"
                    /\ UNCHANGED elast
            /\ UNCHANGED <<internal, rcv_buffer, cb>>
            /\ UNCHANGED <<vars, xvars>>

\* audio_backend_start in pwar_cli_run; on failure data.should_stop = 1, up
\* to the join of the receive thread
CliStart ==
    \E start_ok \in BOOLEAN :
        LET s == audio_backend_start(proc, start_ok)
        IN  /\ control = "cli_start"
            /\ IF s.ret < 0
               THEN /\ proc' = [s.p EXCEPT !.data.should_stop = 1]
                    /\ control' = "cli_start_failed"
               ELSE /\ proc' = s.p
                    /\ control' = "cli_wait"
            /\ UNCHANGED <<internal, rcv_buffer, elast, cb>>
            /\ UNCHANGED <<vars, xvars>>

\* the backend did not start: from the join of the receive thread on
CliStartFailedReturns ==
    /\ control = "cli_start_failed"
    /\ pthread_join_returns(proc.recv_thread)
    /\ proc' = [audio_backend_cleanup([proc EXCEPT !.recv_thread = joined(proc.recv_thread)])
                   EXCEPT !.data = NULL]
    /\ control' = "exited"
    /\ elast' = ECall("pwar_cli_run", -1)
    /\ UNCHANGED <<internal, rcv_buffer, cb>>
    /\ UNCHANGED <<vars, xvars>>

\* SIGINT or SIGTERM ends the wait loop: data.should_stop = 1 and
\* audio_backend_stop, up to its join
CliSignal ==
    /\ control = "cli_wait"
    /\ proc' = audio_backend_stop([proc EXCEPT !.data.should_stop = 1])
    /\ control' = "cli_stop"
    /\ UNCHANGED <<internal, rcv_buffer, elast, cb>>
    /\ UNCHANGED <<vars, xvars>>

\* audio_backend_stop returns: pthread_join(recv_thread, NULL) is next
CliStopReturns ==
    /\ control = "cli_stop"
    /\ pthread_join_returns(proc.audio_thread)
    /\ proc' = audio_backend_stopped(proc)
    /\ control' = "cli_join"
    /\ UNCHANGED <<internal, rcv_buffer, elast, cb>>
    /\ UNCHANGED <<vars, xvars>>

\* the receive thread is joined: release everything and return 0
CliJoinReturns ==
    /\ control = "cli_join"
    /\ pthread_join_returns(proc.recv_thread)
    /\ proc' = [destroy_sync_objects(close_sockets(audio_backend_cleanup(
                    [proc EXCEPT !.recv_thread = joined(proc.recv_thread)])))
                   EXCEPT !.data = NULL]
    /\ control' = "exited"
    /\ elast' = ECall("pwar_cli_run", 0)
    /\ UNCHANGED <<internal, rcv_buffer, cb>>
    /\ UNCHANGED <<vars, xvars>>

\* ---------------------------------------------------- the receive thread
\* while (!data->should_stop)
RecvLoopTest ==
    /\ proc.recv_thread = "loop"
    /\ proc.data # NULL
    /\ proc' = [proc EXCEPT !.recv_thread =
                   IF proc.data.should_stop # 0 THEN "exited" ELSE "recvfrom"]
    /\ UNCHANGED <<control, internal, rcv_buffer, elast, cb>>
    /\ UNCHANGED <<vars, xvars>>

\* recvfrom returns a datagram of the size of a packet, which is processed
RecvPacket ==
    \E dgram \in Datagrams :
        LET r == receive_datagram(proc.data, rcv_buffer, internal, dgram)
        IN  /\ proc.recv_thread = "recvfrom"
            /\ proc.data # NULL
            /\ dgram.len = sizeof_pwar_packet_t
            /\ internal.count < MaxPackets
            /\ internal' = r.internal
            /\ proc' = [proc EXCEPT !.data = r.data, !.recv_thread = "loop"]
            /\ rcv_buffer' = r.rcv
            /\ elast' = [elast EXCEPT !.packets = elast.packets + 1]
            /\ UNCHANGED <<control, cb>>
            /\ UNCHANGED <<vars, xvars>>

\* recvfrom returns a datagram of another size, or an error: nothing is done
RecvOther ==
    \E dgram \in Datagrams :
        LET r == receive_datagram(proc.data, rcv_buffer, internal, dgram)
        IN  /\ proc.recv_thread = "recvfrom"
            /\ proc.data # NULL
            /\ dgram.len # sizeof_pwar_packet_t
            /\ internal' = r.internal
            /\ proc' = [proc EXCEPT !.data = r.data, !.recv_thread = "loop"]
            /\ rcv_buffer' = r.rcv
            /\ UNCHANGED <<control, elast, cb>>
            /\ UNCHANGED <<vars, xvars>>

\* recvfrom is a cancellation point: a pending cancellation ends the thread
RecvCancelled ==
    /\ proc.recv_thread = "recvfrom"
    /\ proc.cancel_pending
    /\ proc' = [proc EXCEPT !.recv_thread = "exited"]
    /\ UNCHANGED <<control, internal, rcv_buffer, elast, cb>>
    /\ UNCHANGED <<vars, xvars>>

\* ------------------------------------------- the audio thread (simulated)
\* while (data->running): the next period is due, or the thread ends and
\* frees its input and output arrays
AudioLoopTest ==
    /\ proc.audio_thread = "idle"
    /\ proc.data # NULL
    /\ proc.data.audio_backend # NULL
    /\ proc' = [proc EXCEPT !.audio_thread =
                   IF proc.data.audio_backend.running = 0 THEN "exited"
                   ELSE "callback"]
    /\ cb' = IF proc.data.audio_backend.running = 0 THEN NoCallback ELSE cb
    /\ UNCHANGED <<control, internal, rcv_buffer, elast>>
    /\ UNCHANGED <<vars, xvars>>

\* data->callback(input_buffer, output_left, output_right, frames, userdata)
AudioCallback ==
    \E n_samples \in 1..MaxPeriod, send_ok \in BOOLEAN :
        LET in == Period(n_samples)
            r == audio_process_callback(proc.data, rcv_buffer, in, n_samples, send_ok)
        IN  /\ proc.audio_thread = "callback"
            /\ proc.data # NULL
            /\ proc' = [proc EXCEPT !.data = r.data,
                           !.audio_thread = IF r.wait THEN "wait" ELSE "idle"]
            /\ rcv_buffer' = r.rcv
            /\ cb' = [state |-> IF r.wait THEN "waiting" ELSE "done",
                      n |-> n_samples,
                      out_left |-> r.out_left, out_right |-> r.out_right,
                      seq |-> proc.data.seq, sent |-> r.sent, took |-> r.took,
                      xruns |-> r.xruns, steps |-> r.steps]
            /\ UNCHANGED <<control, internal, elast>>
            /\ UNCHANGED <<vars, xvars>>

\* process_one_shot: the wait ends, by the signal or by the 2 ms timeout
AudioWaitEnds ==
    LET r == one_shot_response(proc.data, cb.n)
    IN  /\ proc.audio_thread = "wait"
        /\ proc.data # NULL
        /\ proc' = [proc EXCEPT !.data = r.data, !.audio_thread = "idle"]
        /\ cb' = [cb EXCEPT !.state = "done", !.out_left = r.out_left,
                            !.out_right = r.out_right, !.xruns = r.xruns,
                            !.steps = @ \o r.steps]
        /\ UNCHANGED <<control, internal, rcv_buffer, elast>>
        /\ UNCHANGED <<vars, xvars>>

\* ------------------------------------------------------ the specifications
EngineNext ==
    \/ DoPwarInit
    \/ DoPwarStart
    \/ DoPwarStop
    \/ PwarStopReturns
    \/ DoPwarCleanup
    \/ CleanupStopReturns
    \/ CleanupJoinReturns
    \/ DoPwarUpdateConfig
    \/ DoCliRun
    \/ CliStart
    \/ CliStartFailedReturns
    \/ CliSignal
    \/ CliStopReturns
    \/ CliJoinReturns
    \/ RecvLoopTest
    \/ RecvPacket
    \/ RecvOther
    \/ RecvCancelled
    \/ AudioLoopTest
    \/ AudioCallback
    \/ AudioWaitEnds

allvars == <<vars, evars, xvars>>

EngineSpec == EngineInit /\ [][EngineNext]_allvars

\* the scheduler runs every thread that can take a step; whether a datagram
\* arrives (RecvPacket, RecvOther) or a signal is sent (CliSignal) is up to
\* the environment, and the caller of the API need not make another call
EngineFairness ==
    /\ WF_allvars(PwarStopReturns)
    /\ WF_allvars(CleanupStopReturns)
    /\ WF_allvars(CleanupJoinReturns)
    /\ WF_allvars(CliStart)
    /\ WF_allvars(CliStartFailedReturns)
    /\ WF_allvars(CliStopReturns)
    /\ WF_allvars(CliJoinReturns)
    /\ WF_allvars(RecvLoopTest)
    /\ WF_allvars(RecvCancelled)
    /\ WF_allvars(AudioLoopTest)
    /\ WF_allvars(AudioCallback)
    /\ WF_allvars(AudioWaitEnds)

EngineLiveSpec == EngineInit /\ [][EngineNext]_allvars /\ EngineFairness

\* ------------------------------------------------------- claims on the engine
\* the control thread is between two calls of the API
BetweenCalls == control = "idle" /\ ~proc.exited

ReceiverRunning(p) == p.recv_thread \in {"loop", "recvfrom"}

\* C12: on an initialised engine pwar_init returns -1, whatever configuration
\* it is given, and changes nothing: same stored configuration, same engine
\* data, same sockets, same receive thread, and no receive thread is orphaned.
C12_InitGuarded ==
    /\ (BetweenCalls /\ proc.g_pwar_initialized = 1) =>
          \A config \in Configs, fail \in InitFailures :
              pwar_init(proc, config, fail) = [p |-> proc, ret |-> -1]
    /\ proc.orphans = 0

\* a second pwar_init returned -1 while the receive thread was running
C12_Witness ==
    /\ BetweenCalls
    /\ elast.op = "pwar_init" /\ elast.ret = -1
    /\ proc.g_pwar_initialized = 1
    /\ ReceiverRunning(proc)
    /\ proc.sockets = 2

\* C13: a pwar_init that fails returns an error to its caller, leaves the
\* engine uninitialised and has released both sockets, the mutexes and the
\* condition variable and the backend object, so that a pwar_init with a
\* valid configuration succeeds afterwards.
C13_InitFailureRolledBack ==
    (/\ elast.op = "pwar_init"
     /\ proc.exited \/ (control = "idle" /\ proc.g_pwar_initialized = 0)) =>
        /\ ~proc.exited
        /\ elast.ret = -1
        /\ proc.g_pwar_initialized = 0 /\ proc.g_pwar_data = NULL
        /\ proc.sockets = 0 /\ ~proc.port_bound
        /\ proc.sync_objects = 0
        /\ proc.backends = 0
        /\ pwar_init(proc, DefaultConfig, "none").ret = 0

\* the state of the lifecycle the two flags of the engine stand for
LifecycleState(p) ==
    IF p.g_pwar_initialized = 0
    THEN (IF p.g_pwar_running = 0 THEN "uninitialised" ELSE "running uninitialised")
    ELSE (IF p.g_pwar_running = 0 THEN "initialised" ELSE "running")

\* the transitions of the lifecycle; stopped is initialised and not running
LifecycleEdges ==
    {<<"uninitialised", "initialised">>, <<"initialised", "running">>,
     <<"running", "initialised">>, <<"initialised", "uninitialised">>}

\* a step that changes the lifecycle state follows an edge, and is the return
\* of the call the edge belongs to (pwar_cleanup stops a running engine first)
LifecycleStep ==
    LET from == LifecycleState(proc)
        to == LifecycleState(proc')
    IN  from # to =>
          /\ <<from, to>> \in LifecycleEdges
          /\ to = "running" => elast' = ECall("pwar_start", 0)
          /\ from = "uninitialised" => elast' = ECall("pwar_init", 0)
          /\ from = "running" =>
                \/ elast' = ECall("pwar_stop", 0)
                \/ control = "cleanup_stop" /\ control' = "cleanup_join"
          /\ to = "uninitialised" => elast' = ECall("pwar_cleanup", 0)

\* what pwar_start and pwar_stop return, and what they change, between calls
StartStopContract ==
    BetweenCalls =>
        /\ \A start_ok \in BOOLEAN :
              LET r == pwar_start(proc, start_ok)
              IN  /\ r.ret \in {0, -1}
                  /\ r.ret = 0 => /\ LifecycleState(proc) = "initialised"
                                  /\ LifecycleState(r.p) = "running"
                  /\ r.ret = -1 => r.p = proc
                  /\ (LifecycleState(proc) = "initialised" /\ ~start_ok) => r.ret = -1
        /\ LET r == pwar_stop(proc)
           IN  /\ r.ret \in {0, -1}
               /\ r.ret = 0 <=> LifecycleState(proc) = "running"
               /\ r.ret = -1 => (r.p = proc /\ r.control = "idle")

\* C14: the engine moves only along uninitialised -> initialised -> running ->
\* stopped (initialised) -> uninitialised; pwar_start succeeds only when the
\* engine is initialised and not running, pwar_stop only when it is running,
\* both return -1 and change nothing otherwise (also when the backend fails to
\* start); the engine is never running without being initialised.
C14_LifecycleConformance ==
    /\ [](proc.g_pwar_running = 1 => proc.g_pwar_initialized = 1)
    /\ []StartStopContract
    /\ [][LifecycleStep]_allvars

\* the backend failed to start: pwar_start returned -1 on an initialised
\* engine, which is still initialised, not running and has its receive thread
C14_Witness ==
    /\ BetweenCalls
    /\ elast.op = "pwar_start" /\ elast.ret = -1
    /\ LifecycleState(proc) = "initialised"
    /\ ReceiverRunning(proc)
    /\ proc.audio_thread = "none"

AudioStopped(p) ==
    /\ p.audio_thread = "none"
    /\ p.data # NULL
    /\ p.data.audio_backend # NULL
    /\ p.data.audio_backend.running = 0

\* C15: after pwar_stop has returned 0 the backend is stopped and its thread
\* joined, while the receive thread is still running, not cancelled and with
\* should_stop clear; in an initialised engine the receive thread is told to
\* stop, or has ended, only inside pwar_cleanup.
C15_StopKeepsReceiverRunning ==
    /\ (BetweenCalls /\ elast.op = "pwar_stop" /\ elast.ret = 0) =>
          /\ proc.g_pwar_running = 0
          /\ proc.g_pwar_initialized = 1
          /\ AudioStopped(proc)
          /\ ReceiverRunning(proc)
          /\ proc.data.should_stop = 0
          /\ ~proc.cancel_pending
    /\ (proc.g_pwar_data # NULL /\ control # "cleanup_join") =>
          /\ ReceiverRunning(proc)
          /\ proc.data.should_stop = 0
          /\ ~proc.cancel_pending

\* a packet was received and processed after pwar_stop had returned, and the
\* receive thread is back in recvfrom
C15_Witness ==
    /\ BetweenCalls
    /\ elast.op = "pwar_stop" /\ elast.ret = 0
    /\ elast.packets >= 1
    /\ proc.recv_thread = "recvfrom"
    /\ internal.count >= 1

\* C16: in pwar_cleanup and in the shutdown of pwar_cli_run the backend is
\* stopped and its thread joined before the receive thread is joined, and as
\* long as the receive thread or the audio thread can still run, the struct
\* exists, its two sockets are open, its mutexes and condition variable are
\* initialised and, for the audio thread, the backend object exists.
C16_ShutdownOrdering ==
    /\ control \in {"cleanup_join", "cli_join"} => AudioStopped(proc)
    /\ (ReceiverRunning(proc) \/ proc.audio_thread \in {"idle", "callback", "wait"}) =>
          /\ proc.data # NULL
          /\ proc.data.sockfd > 0 /\ proc.data.recv_sockfd > 0
          /\ proc.sockets >= 2 /\ proc.port_bound
          /\ proc.sync_objects >= 3
    /\ proc.audio_thread \in {"idle", "callback", "wait"} =>
          /\ proc.data.audio_backend # NULL
          /\ proc.backends >= 1

\* pwar_cleanup of a running engine: the backend is stopped and joined, the
\* receive thread is cancelled but still in recvfrom, nothing is released yet
C16_Witness ==
    /\ control = "cleanup_join"
    /\ elast.op = "pwar_start" /\ elast.ret = 0
    /\ proc.recv_thread = "recvfrom"
    /\ proc.cancel_pending
    /\ proc.sockets = 2
    /\ proc.data # NULL

\* pwar_cleanup has returned
CleanupReturned == control = "idle" /\ elast = ECall("pwar_cleanup", 0)

\* C17: pwar_cleanup returns eventually, also when the receive thread is
\* blocked in recvfrom and no datagram arrives; when it has returned the
\* receive thread is joined and the engine is uninitialised and not running;
\* on an uninitialised engine it changes nothing.
C17_CleanupTerminates ==
    /\ (control \in {"cleanup_stop", "cleanup_join"}) ~> CleanupReturned
    /\ [](CleanupReturned =>
            /\ proc.recv_thread = "none" /\ proc.audio_thread = "none"
            /\ proc.g_pwar_initialized = 0 /\ proc.g_pwar_running = 0
            /\ proc.g_pwar_data = NULL /\ proc.data = NULL)
    /\ []((BetweenCalls /\ proc.g_pwar_initialized = 0) =>
            pwar_cleanup(proc) = [p |-> proc, control |-> "idle"])

\* pwar_cleanup is waiting for the receive thread, which is blocked in
\* recvfrom on a socket no datagram has arrived on
C17_Witness ==
    /\ control = "cleanup_join"
    /\ proc.recv_thread = "recvfrom"
    /\ internal.count = 0
    /\ elast.packets = 0
    /\ proc.g_pwar_running = 0

\* the fields the specification requires a restart for
RestartFields ==
    {"buffer_size", "ring_buffer_depth", "stream_ip", "stream_port", "backend_type"}

\* C18: on an initialised engine pwar_update_config returns -2 exactly when
\* the new configuration differs from the current one in buffer size, ring
\* depth, peer ip, peer port or backend type, and then changes nothing;
\* otherwise it returns 0 and applies passthrough_test and oneshot_mode.
C18_RestartIffRestartField ==
    (BetweenCalls /\ proc.g_pwar_initialized = 1) =>
        \A config \in Configs :
            LET r == pwar_update_config(proc, config)
                differs == \E f \in RestartFields : proc.g_current_config[f] # config[f]
            IN  /\ r.ret = -2 <=> differs
                /\ r.ret = -2 => r.p = proc
                /\ r.ret = 0 <=> ~differs
                /\ r.ret = 0 =>
                      /\ r.p.g_current_config = config
                      /\ r.p.data.config.passthrough_test = config.passthrough_test
                      /\ r.p.data.config.oneshot_mode = config.oneshot_mode

\* C19: a pwar_init that succeeds after a pwar_cleanup leaves what the first
\* pwar_init of the process leaves: engine initialised and not running,
\* sockets bound, receive thread running, backend ready, and a receive buffer
\* and latency statistics that hold nothing of the run before.
C19_ReinitSameObservableState ==
    (BetweenCalls /\ elast = ECall("pwar_init", 0)) =>
        /\ [proc EXCEPT !.recv_thread = "loop"]
               = pwar_init(NoProc, proc.g_current_config, "none").p
        /\ internal = [count |-> 0]
        /\ rcv_buffer = 0

\* C20: with passthrough_test set the callback copies its n input samples to
\* out_left and to out_right and does nothing else: data->seq and the rest of
\* the struct are unchanged, no packet is sent, no chunk is taken from the
\* receive buffer and no xrun is reported.
C20_PassthroughCopiesOnly ==
    (proc.data # NULL /\ proc.data.config.passthrough_test # 0) =>
        \A n_samples \in 1..MaxPeriod, send_ok \in BOOLEAN :
            LET in == Period(n_samples)
                r == audio_process_callback(proc.data, rcv_buffer, in, n_samples, send_ok)
            IN  /\ r.out_left = in /\ r.out_right = in
                /\ r.data = proc.data
                /\ r.rcv = rcv_buffer
                /\ r.sent = 0 /\ r.took = 0 /\ r.xruns = 0
                /\ ~r.wait

\* a passthrough callback of two samples has completed while a chunk was
\* ready in the receive buffer
C20_Witness ==
    /\ cb.state = "done"
    /\ proc.data # NULL /\ proc.data.config.passthrough_test # 0
    /\ cb.n = 2
    /\ cb.out_left = Period(2) /\ cb.out_right = Period(2)
    /\ cb.sent = 0 /\ cb.seq = proc.data.seq
    /\ rcv_buffer >= 1

\* the callback run to its return, for a wait during which no packet arrives
callback_completed(data, rcv, in, n_samples, send_ok) ==
    LET r == audio_process_callback(data, rcv, in, n_samples, send_ok)
        w == one_shot_response(r.data, n_samples)
    IN  IF r.wait
        THEN [r EXCEPT !.data = w.data, !.out_left = w.out_left,
                       !.out_right = w.out_right, !.xruns = w.xruns,
                       !.wait = FALSE, !.steps = @ \o w.steps]
        ELSE r

\* every one of the n samples of an output array was written
Written(out, n) == \A i \in 1..n : out[i] # JUNK

\* C21: a non-passthrough callback in which sendto fails still completes the
\* period: both output arrays are written, all n samples, with the frames
\* received from the peer or with silence.
C21_SendFailureCompletesPeriod ==
    (proc.data # NULL /\ proc.data.config.passthrough_test = 0) =>
        \A n_samples \in 1..MaxPeriod :
            LET r == callback_completed(proc.data, rcv_buffer, Period(n_samples),
                                        n_samples, FALSE)
            IN  /\ Written(r.out_left, n_samples)
                /\ Written(r.out_right, n_samples)
                /\ r.out_left \in {PeerSamples(n_samples), Zeros(n_samples)}
                /\ r.out_right \in {PeerSamples(n_samples), Zeros(n_samples)}

\* the play-out side can supply the frames of a period: a chunk is ready in
\* the receive buffer, or in one-shot mode the response packet is available
CanSupply(data, rcv) ==
    IF data.config.oneshot_mode # 0 THEN data.packet_available = 1 ELSE rcv >= 1

\* C22: a non-passthrough callback for which the play-out side cannot supply
\* n frames writes n zero samples to both outputs and reports exactly one
\* xrun; one for which it can supply them reports no xrun and writes the
\* frames taken.
C22_UnderrunSilenceAndOneXrun ==
    (proc.data # NULL /\ proc.data.config.passthrough_test = 0) =>
        \A n_samples \in 1..MaxPeriod, send_ok \in BOOLEAN :
            LET r == callback_completed(proc.data, rcv_buffer, Period(n_samples),
                                        n_samples, send_ok)
            IN  IF CanSupply(proc.data, rcv_buffer)
                THEN /\ r.xruns = 0
                     /\ r.out_left = PeerSamples(n_samples)
                     /\ r.out_right = PeerSamples(n_samples)
                ELSE /\ r.xruns = 1
                     /\ r.out_left = Zeros(n_samples)
                     /\ r.out_right = Zeros(n_samples)

\* a datagram the receive loop may act on: a packet by its length, with
\* 1 <= n_samples <= PWAR_PACKET_MAX_CHUNK_SIZE
ValidPacket(dgram) ==
    /\ dgram.len = sizeof_pwar_packet_t
    /\ dgram.n_samples >= 1
    /\ dgram.n_samples <= PWAR_PACKET_MAX_CHUNK_SIZE

\* C24: a datagram that is not a valid packet is dropped by the receive loop:
\* the receive buffer, the latency statistics, the peer buffer size and the
\* rest of the engine data are what they were before it arrived.
C24_OnlyValidPacketsAffectState ==
    proc.data # NULL =>
        \A dgram \in Datagrams :
            LET r == receive_datagram(proc.data, rcv_buffer, internal, dgram)
            IN  ~ValidPacket(dgram) =>
                    /\ r.rcv = rcv_buffer
                    /\ r.internal = internal
                    /\ r.data = proc.data

\* C30: once should_stop is set the receive loop ends, also when no further
\* datagram arrives, so that the shutdown of pwar_cli_run and its
\* backend-start-failure path, which set the flag and join the thread,
\* return.
C30_StopFlagEndsReceiveLoop ==
    /\ (proc.data # NULL /\ proc.data.should_stop # 0 /\ ReceiverRunning(proc))
           ~> ~ReceiverRunning(proc)
    /\ (control \in {"cli_start_failed", "cli_stop", "cli_join"})
           ~> (control = "exited")

\* ------------------------------------------ order within one audio callback
\* how often the statement x was executed
Times(steps, x) == Cardinality({i \in 1..Len(steps) : steps[i] = x})

\* the statement x was executed, and before the statement y
Before(steps, x, y) ==
    \E i, j \in 1..Len(steps) : i < j /\ steps[i] = x /\ steps[j] = y

\* one packet is stamped after the samples are copied in, its send attempted
\* once, and one chunk is then taken from the receive buffer
SendsThenTakes(steps) ==
    /\ Times(steps, "sendto") = 1
    /\ Times(steps, "pwar_rcv_get_chunk") = 1
    /\ Before(steps, "sendto", "pwar_rcv_get_chunk")
    /\ Before(steps, "copy_in", "timestamp")
    /\ Before(steps, "timestamp", "sendto")

Overran == Accepted("push") /\ last.n > last.pre.depth - last.pre.available

\* the cursors after the last call, had they moved by the frames pushed and
\* popped only
CursorsFollowCall ==
    /\ Accepted("push") =>
          /\ ring_buffer.write_index = (last.pre.write_index + last.n) % last.pre.depth
          /\ ring_buffer.read_index = last.pre.read_index
    /\ Accepted("pop") =>
          /\ ring_buffer.read_index = (last.pre.read_index + last.n) % last.pre.depth
          /\ ring_buffer.write_index = last.pre.write_index

\* C38 as stated: after any sequence of pushes and pops, overruns and
\* underruns included, write index = (initial write index + frames pushed)
\* mod depth and read index = (initial read index + frames popped) mod depth;
\* call by call: a push of n frames moves the write index by n and leaves the
\* read index, a pop of n frames moves the read index by n and leaves the
\* write index.
C38_AsStated == CursorsFollowCall

\* C38 amended: the cursor equations hold for the pushes that do not overrun
\* and the pops that do not underrun, and for the totals as long as no overrun
\* or underrun happened since init (both cursors start at 0); an overrun also
\* moves the read index and an underrun resets both cursors to 0.
C38_CursorsWithoutXrun ==
    /\ ~Overran /\ ~Underran => CursorsFollowCall
    /\ (ring_buffer.buffer # NULL /\ ~xrun_reported) =>
          /\ ring_buffer.write_index =
                (Len(pushed) \div ring_buffer.channels) % ring_buffer.depth
          /\ ring_buffer.read_index =
                (Len(popped) \div ring_buffer.channels) % ring_buffer.depth
    /\ Underran => ring_buffer.write_index = 0 /\ ring_buffer.read_index = 0
    /\ (Overran /\ last.pre.depth >= last.n) =>
          ring_buffer.read_index =
             (last.pre.read_index + (last.n - (last.pre.depth - last.pre.available)))
                 % last.pre.depth

\* frames were popped and pushed without an xrun and the write index wrapped
C38_Witness ==
    /\ Accepted("push") /\ ~Overran /\ ~xrun_reported
    /\ last.n > 0
    /\ Len(popped) > 0
    /\ ring_buffer.write_index < last.pre.write_index
    /\ ring_buffer.read_index > 0

\* C39: on an initialised ring buffer both indices are in [0, depth) and
\* write index = (read index + available) mod depth, after init, every push
\* (overrunning or not, n > depth included), every pop and every underrun.
C39_WriteIsReadPlusAvailable ==
    ring_buffer.buffer # NULL =>
        /\ ring_buffer.write_index \in 0..(ring_buffer.depth - 1)
        /\ ring_buffer.read_index \in 0..(ring_buffer.depth - 1)
        /\ ring_buffer.write_index =
              (ring_buffer.read_index + ring_buffer.available) % ring_buffer.depth

\* a push of more frames than the depth overran a buffer that was not full
C39_Witness ==
    /\ Overran
    /\ last.n > last.pre.depth
    /\ last.pre.available < last.pre.depth
    /\ last.pre.read_index > 0
    /\ ring_buffer.available = ring_buffer.depth

\* ======================================================== pwar_cli.c
DEFAULT_DEVICE_BUFFER_SIZE == 32
DEFAULT_WINDOWS_PACKET_SIZE == 64

\* the value of a decimal digit, for the characters that are digits
Digits == {"0", "1", "2", "3", "4", "5", "6", "7", "8", "9"}
DigitValue(c) ==
    CASE c = "0" -> 0 [] c = "1" -> 1 [] c = "2" -> 2 [] c = "3" -> 3
      [] c = "4" -> 4 [] c = "5" -> 5 [] c = "6" -> 6 [] c = "7" -> 7
      [] c = "8" -> 8 [] c = "9" -> 9

\* the digits at the head of the string s (a sequence of characters), read
\* as a decimal number continuing the value acc
RECURSIVE atoi_digits(_, _)
atoi_digits(s, acc) ==
    IF s = <<>> \/ Head(s) \notin Digits THEN acc
    ELSE atoi_digits(Tail(s), acc * 10 + DigitValue(Head(s)))

\* atoi: an optional sign, then digits up to the first other character; 0 if
\* there is no digit
atoi(s) ==
    IF s = <<>> THEN 0
    ELSE IF Head(s) = "-" THEN 0 - atoi_digits(Tail(s), 0)
    ELSE IF Head(s) = "+" THEN atoi_digits(Tail(s), 0)
    ELSE atoi_digits(s, 0)

\* the values given to -b / --device-buffer and to -p / --packet-buffer; NULL
\* stands for an option that is not given
DeviceBufferArgs ==
    {NULL, <<"0">>, <<"1">>, <<"3">>, <<"3", "2">>, <<"4", "8">>, <<"6", "4">>,
     <<"1", "2", "8">>, <<"2", "5", "6">>, <<"-", "3", "2">>, <<"a", "b">>}
PacketBufferArgs ==
    {NULL, <<"0">>, <<"1">>, <<"6">>, <<"3", "2">>, <<"6", "4">>, <<"9", "6">>,
     <<"1", "2", "8">>, <<"2", "5", "6">>, <<"5", "1", "2">>, <<"-", "6", "4">>,
     <<"-", "3", "3">>}

\* a % b of two ints in C, b # 0: the quotient is truncated toward zero, so
\* the remainder has the sign of a
c_rem(a, b) ==
    LET abs_a == IF a < 0 THEN 0 - a ELSE a
        abs_b == IF b < 0 THEN 0 - b ELSE b
        r == abs_a % abs_b
    IN  IF a < 0 THEN 0 - r ELSE r

\* the configuration parse_arguments has filled in when it reaches its
\* validation: the defaults, overwritten by the options given
parsed_config(argv) ==
    LET device_buffer ==
            IF argv.device_buffer = NULL THEN DEFAULT_DEVICE_BUFFER_SIZE
            ELSE atoi(argv.device_buffer)
    IN  [device_buffer_size |-> device_buffer,
         windows_packet_size |->
             IF argv.packet_buffer = NULL THEN DEFAULT_WINDOWS_PACKET_SIZE
             ELSE atoi(argv.packet_buffer),
         frames |-> device_buffer]

\* how a call ends: it returns ret, or the process is ended by a signal
Returns(ret) == [signal |-> "none", ret |-> ret]
Killed(signal) == [signal |-> signal, ret |-> 0]

\* the validation at the end of parse_arguments: what it can return. A
\* remainder by zero is undefined: the process is ended by SIGFPE where the
\* division traps, and where it does not the remainder is the dividend.
validate(config) ==
    IF config.device_buffer_size = 0
    THEN {Killed("SIGFPE"),
          Returns(IF config.windows_packet_size # 0 THEN -1 ELSE 0)}
    ELSE IF c_rem(config.windows_packet_size, config.device_buffer_size) # 0
    THEN {Returns(-1)} ELSE {Returns(0)}

\* parse_arguments for a command line with the options of argv
parse_arguments(argv) ==
    {[config |-> parsed_config(argv), signal |-> end.signal, ret |-> end.ret] :
        end \in validate(parsed_config(argv))}

\* the packet process_ping_pong and process_one_shot fill in for a period of
\* n_samples frames: its header fields, and the number of floats memcpy
\* writes to packet.samples[0] and to packet.samples[1]
build_packet(seq, n_samples) ==
    [seq |-> seq, n_samples |-> n_samples, packet_index |-> 0, num_packets |-> 1,
     copied |-> <<n_samples, n_samples>>]

\* ret is the return value of parse_arguments once pc is "parsed"
NoCli ==
    [pc |-> "start", argv |-> NULL, config |-> NULL, ret |-> 0, packet |-> NULL]

CliInit ==
    /\ cli \in {[NoCli EXCEPT !.argv = [device_buffer |-> b, packet_buffer |-> p]] :
                   b \in DeviceBufferArgs, p \in PacketBufferArgs}
    /\ lat = NULL
    /\ thr = NULL
    /\ RingInit
    /\ NoEngine

\* main: parse_arguments(argc, argv, &config)
DoParseArguments ==
    \E r \in parse_arguments(cli.argv) :
        /\ cli.pc = "start"
        /\ cli' = [cli EXCEPT !.pc = IF r.signal = "none" THEN "parsed" ELSE r.signal,
                              !.config = r.config, !.ret = r.ret]
        /\ UNCHANGED <<lat, thr, vars, evars>>

\* the backend, started by pwar_cli_run with the accepted configuration,
\* calls the audio callback with a period of audio_config.frames frames
DoFirstCallback ==
    /\ cli.pc = "parsed"
    /\ cli.ret = 0
    /\ cli.config.frames >= 1
    /\ cli' = [cli EXCEPT !.pc = "running",
                          !.packet = build_packet(0, cli.config.frames)]
    /\ UNCHANGED <<lat, thr, vars, evars>>

CliNext ==
    \/ DoParseArguments
    \/ DoFirstCallback

CliSpec == CliInit /\ [][CliNext]_allvars

\* p = k * d for an integer k >= 1
PositiveMultiple(p, d) ==
    \E k \in 1..(DEFAULT_WINDOWS_PACKET_SIZE * 8) : p = k * d

\* C27: parse_arguments returns, without a fault, for every pair of a device
\* buffer and a packet buffer given on the command line, and it returns 0
\* only if the packet buffer is k times the device buffer for a k >= 1.
C27_AcceptsOnlyPositiveMultiples ==
    cli.pc # "start" =>
        /\ cli.pc # "SIGFPE"
        /\ cli.ret \in {0, -1}
        /\ cli.ret = 0 =>
              PositiveMultiple(cli.config.windows_packet_size,
                               cli.config.device_buffer_size)

\* C28: a packet the engine sends for a configuration the command line
\* accepts has 1 <= n_samples <= PWAR_PACKET_MAX_CHUNK_SIZE, and no more than
\* PWAR_PACKET_MAX_CHUNK_SIZE floats are copied into either channel of its
\* sample array.
C28_PacketWithinMaxChunk ==
    cli.packet # NULL =>
        /\ cli.packet.n_samples >= 1
        /\ cli.packet.n_samples <= PWAR_PACKET_MAX_CHUNK_SIZE
        /\ \A ch \in 1..2 : cli.packet.copied[ch] <= PWAR_PACKET_MAX_CHUNK_SIZE

\* ================================================== latency_manager.c
\* A uint64_t is kept as four 16-bit limbs, highest first, so that the
\* nanosecond timestamps and their differences are computed modulo 2^64.
U64(n) == <<0, 0, (n \div LIMB) % LIMB, n % LIMB>>

U64Add(a, b) ==
    LET s4 == a[4] + b[4]
        s3 == a[3] + b[3] + (s4 \div LIMB)
        s2 == a[2] + b[2] + (s3 \div LIMB)
        s1 == a[1] + b[1] + (s2 \div LIMB)
    IN  <<s1 % LIMB, s2 % LIMB, s3 % LIMB, s4 % LIMB>>

U64Sub(a, b) ==
    LET d4 == a[4] - b[4]
        d3 == a[3] - b[3] - (IF d4 < 0 THEN 1 ELSE 0)
        d2 == a[2] - b[2] - (IF d3 < 0 THEN 1 ELSE 0)
        d1 == a[1] - b[1] - (IF d2 < 0 THEN 1 ELSE 0)
    IN  <<d1 % LIMB, d2 % LIMB, d3 % LIMB, d4 % LIMB>>

U64Lt(a, b) ==
    \E i \in 1..4 : a[i] < b[i] /\ \A j \in 1..(i - 1) : a[j] = b[j]

\* a / c for a small divisor c >= 1, by long division over the limbs
U64Div(a, c) ==
    LET q1 == a[1] \div c
        r1 == a[1] % c
        q2 == (r1 * LIMB + a[2]) \div c
        r2 == (r1 * LIMB + a[2]) % c
        q3 == (r2 * LIMB + a[3]) \div c
        r3 == (r2 * LIMB + a[3]) % c
        q4 == (r3 * LIMB + a[4]) \div c
    IN  <<q1, q2, q3, q4>>

\* the report period of latency_manager_process_packet: 2000000000ULL ns
REPORT_PERIOD_NS == 2000000000
\* the divisor of the conversion from nanoseconds to milliseconds
NS_PER_MS == 1000000

\* latency_stat_t = {0}
ZeroStat == [min |-> U64(0), max |-> U64(0), avg |-> U64(0), total |-> U64(0),
             count |-> 0]

\* mutant: the count = 0 test is missing, the minimum of the window before
\* is kept
process_latency_stat_keep_min(stat, value) ==
    LET total == U64Add(stat.total, value)
        count == stat.count + 1
    IN  [min |-> IF U64Lt(value, stat.min) THEN value ELSE stat.min,
         max |-> IF stat.count = 0 \/ U64Lt(stat.max, value) THEN value ELSE stat.max,
         avg |-> U64Div(total, count),
         total |-> total,
         count |-> count]

\* process_latency_stat
process_latency_stat(stat, value) ==
    LET total == U64Add(stat.total, value)
        count == stat.count + 1
    IN  [min |-> IF stat.count = 0 \/ U64Lt(value, stat.min) THEN value ELSE stat.min,
         max |-> IF stat.count = 0 \/ U64Lt(stat.max, value) THEN value ELSE stat.max,
         avg |-> U64Div(total, count),
         total |-> total,
         count |-> count]

\* static struct internal = {0}
ZeroInternal ==
    [last_windows_recv |-> U64(0), last_linux_recv |-> U64(0),
     expected_interval_ms |-> [num |-> 0, den |-> 1], sample_rate |-> 0,
     rtt_stat |-> ZeroStat, audio_proc_stat |-> ZeroStat,
     windows_rcv_delta_stat |-> ZeroStat, linux_rcv_delta_stat |-> ZeroStat,
     ring_buffer_fill_level_stat |-> ZeroStat,
     rtt_stat_current |-> ZeroStat, audio_proc_stat_current |-> ZeroStat,
     windows_rcv_delta_stat_current |-> ZeroStat,
     linux_rcv_delta_stat_current |-> ZeroStat,
     ring_buffer_fill_level_stat_current |-> ZeroStat,
     last_print_time |-> U64(0)]

\* latency_manager_init: (buffer_size / (float)sample_rate) * 1000.0f is kept
\* as the fraction it is the value of
latency_manager_init(st, sample_rate, buffer_size) ==
    [st EXCEPT !.expected_interval_ms = [num |-> buffer_size * 1000, den |-> sample_rate],
               !.sample_rate = sample_rate]

latency_manager_report_ring_buffer_fill_level(st, fill_level) ==
    [st EXCEPT !.ring_buffer_fill_level_stat =
                   process_latency_stat(st.ring_buffer_fill_level_stat, U64(fill_level))]

\* mutant: the report waits until more than 2 seconds have passed
report_window_after_period(st, current_time) ==
    LET s == IF st.last_print_time = U64(0)
             THEN [st EXCEPT !.last_print_time = current_time] ELSE st
    IN  IF U64Lt(U64(REPORT_PERIOD_NS), U64Sub(current_time, s.last_print_time))
        THEN [s EXCEPT !.ring_buffer_fill_level_stat_current = s.ring_buffer_fill_level_stat,
                       !.rtt_stat_current = s.rtt_stat,
                       !.audio_proc_stat_current = s.audio_proc_stat,
                       !.windows_rcv_delta_stat_current = s.windows_rcv_delta_stat,
                       !.linux_rcv_delta_stat_current = s.linux_rcv_delta_stat,
                       !.rtt_stat = ZeroStat, !.audio_proc_stat = ZeroStat,
                       !.windows_rcv_delta_stat = ZeroStat,
                       !.linux_rcv_delta_stat = ZeroStat,
                       !.ring_buffer_fill_level_stat = ZeroStat,
                       !.last_print_time = current_time]
        ELSE s

\* the part of latency_manager_process_packet that reports: every 2 seconds
\* the statistics become the snapshot and start again
report_window(st, current_time) ==
    LET s == IF st.last_print_time = U64(0)
             THEN [st EXCEPT !.last_print_time = current_time] ELSE st
    IN  IF ~U64Lt(U64Sub(current_time, s.last_print_time), U64(REPORT_PERIOD_NS))
        THEN [s EXCEPT !.ring_buffer_fill_level_stat_current = s.ring_buffer_fill_level_stat,
                       !.rtt_stat_current = s.rtt_stat,
                       !.audio_proc_stat_current = s.audio_proc_stat,
                       !.windows_rcv_delta_stat_current = s.windows_rcv_delta_stat,
                       !.linux_rcv_delta_stat_current = s.linux_rcv_delta_stat,
                       !.rtt_stat = ZeroStat, !.audio_proc_stat = ZeroStat,
                       !.windows_rcv_delta_stat = ZeroStat,
                       !.linux_rcv_delta_stat = ZeroStat,
                       !.ring_buffer_fill_level_stat = ZeroStat,
                       !.last_print_time = current_time]
        ELSE s

\* mutant: the round trip measured from the peer's receive time
fold_packet_cross_domain(st, p) ==
    [st EXCEPT !.rtt_stat = process_latency_stat(st.rtt_stat,
                                U64Sub(p.t4_linux_recv, p.t2_windows_recv)),
               !.audio_proc_stat = process_latency_stat(st.audio_proc_stat,
                                U64Sub(p.t3_windows_send, p.t2_windows_recv)),
               !.windows_rcv_delta_stat = process_latency_stat(st.windows_rcv_delta_stat,
                                U64Sub(p.t2_windows_recv, st.last_windows_recv)),
               !.linux_rcv_delta_stat = process_latency_stat(st.linux_rcv_delta_stat,
                                U64Sub(p.t4_linux_recv, st.last_linux_recv)),
               !.last_windows_recv = p.t2_windows_recv,
               !.last_linux_recv = p.t4_linux_recv]

\* the part of latency_manager_process_packet that folds the packet p, whose
\* t4 is set, into the four statistics
fold_packet(st, p) ==
    [st EXCEPT !.rtt_stat = process_latency_stat(st.rtt_stat,
                                U64Sub(p.t4_linux_recv, p.t1_linux_send)),
               !.audio_proc_stat = process_latency_stat(st.audio_proc_stat,
                                U64Sub(p.t3_windows_send, p.t2_windows_recv)),
               !.windows_rcv_delta_stat = process_latency_stat(st.windows_rcv_delta_stat,
                                U64Sub(p.t2_windows_recv, st.last_windows_recv)),
               !.linux_rcv_delta_stat = process_latency_stat(st.linux_rcv_delta_stat,
                                U64Sub(p.t4_linux_recv, st.last_linux_recv)),
               !.last_windows_recv = p.t2_windows_recv,
               !.last_linux_recv = p.t4_linux_recv]

\* latency_manager_process_packet(packet): timestamp_now is the first reading
\* of the clock in the call, current_time the second
latency_manager_process_packet(st, packet, timestamp_now, current_time) ==
    LET p == [packet EXCEPT !.t4_linux_recv = timestamp_now]
    IN  [packet |-> p, internal |-> report_window(fold_packet(st, p), current_time)]

\* a value of the snapshot: value / divisor * factor as a double
Scaled(value, divisor, factor) == [value |-> value, divisor |-> divisor, factor |-> factor]

\* latency_manger_get_current_metrics
latency_manger_get_current_metrics(st) ==
    [rtt_min_ms |-> Scaled(st.rtt_stat_current.min, NS_PER_MS, 1),
     rtt_max_ms |-> Scaled(st.rtt_stat_current.max, NS_PER_MS, 1),
     rtt_avg_ms |-> Scaled(st.rtt_stat_current.avg, NS_PER_MS, 1),
     audio_proc_min_ms |-> Scaled(st.audio_proc_stat_current.min, NS_PER_MS, 1),
     audio_proc_max_ms |-> Scaled(st.audio_proc_stat_current.max, NS_PER_MS, 1),
     audio_proc_avg_ms |-> Scaled(st.audio_proc_stat_current.avg, NS_PER_MS, 1),
     windows_jitter_min_ms |-> Scaled(st.windows_rcv_delta_stat_current.min, NS_PER_MS, 1),
     windows_jitter_max_ms |-> Scaled(st.windows_rcv_delta_stat_current.max, NS_PER_MS, 1),
     windows_jitter_avg_ms |-> Scaled(st.windows_rcv_delta_stat_current.avg, NS_PER_MS, 1),
     linux_jitter_min_ms |-> Scaled(st.linux_rcv_delta_stat_current.min, NS_PER_MS, 1),
     linux_jitter_max_ms |-> Scaled(st.linux_rcv_delta_stat_current.max, NS_PER_MS, 1),
     linux_jitter_avg_ms |-> Scaled(st.linux_rcv_delta_stat_current.avg, NS_PER_MS, 1),
     ring_buffer_min_ms |-> Scaled(st.ring_buffer_fill_level_stat_current.min, st.sample_rate, 1000),
     ring_buffer_max_ms |-> Scaled(st.ring_buffer_fill_level_stat_current.max, st.sample_rate, 1000),
     ring_buffer_avg_ms |-> Scaled(st.ring_buffer_fill_level_stat_current.avg, st.sample_rate, 1000),
     xruns |-> 0]

\* ---------------------------------------------------------------- bounds
MaxLatPackets == 2
MaxAdvances == 2
MaxFillReports == 2
MaxXrunReports == 1

DEFAULT_SAMPLE_RATE == 48000
\* the clock when the first packet can arrive, and the steps it advances by:
\* a tenth of a millisecond, or a whole report period
FIRST_ARRIVAL_NS == 2500000
ClockSteps == {100000, REPORT_PERIOD_NS}
\* round trip and peer processing times of the packets that arrive; the peer
\* clock is PEER_CLOCK_OFFSET_NS behind the local one when it receives
RoundTrips == {1000000, 1500000}
ProcessingTimes == {1200000}
PEER_CLOCK_OFFSET_NS == 1400000
FillLevels == {32, 64}

\* the packet that arrives at time now after a round trip of rtt ns of which
\* the peer spent audio_proc ns; t4 is whatever the peer left there
PacketAt(now, rtt, audio_proc) ==
    LET t2 == U64Sub(now, U64(PEER_CLOCK_OFFSET_NS))
    IN  [t1_linux_send |-> U64Sub(now, U64(rtt)), t2_windows_recv |-> t2,
         t3_windows_send |-> U64Add(t2, U64(audio_proc)), t4_linux_recv |-> U64(0)]

\* latency_manager_report_xrun: one more xrun in the current window
latency_manager_report_xrun(xruns) == [xruns EXCEPT !.window = xruns.window + 1]

\* the xrun count when a report window completes
xruns_window_completed(xruns) == [window |-> 0, completed |-> xruns.window]

NoLatCall == [op |-> "none", packet |-> NULL, now |-> U64(0), before |-> NULL,
              returned |-> NULL]

\* the static struct, the clock and what was called so far, at program start
LatencyStart ==
    [internal |-> ZeroInternal, now |-> U64(FIRST_ARRIVAL_NS),
     xruns |-> [window |-> 0, completed |-> 0],
     packets |-> 0, advances |-> 0, fill_reports |-> 0, xrun_reports |-> 0,
     windows |-> 0, fill_values |-> <<>>, last |-> NoLatCall]

LatencyInit ==
    /\ lat = LatencyStart
    /\ cli = NULL
    /\ thr = NULL
    /\ RingInit
    /\ NoEngine

DoLatencyManagerInit ==
    /\ lat.internal.sample_rate = 0
    /\ lat' = [lat EXCEPT !.internal = latency_manager_init(lat.internal,
                                           DEFAULT_SAMPLE_RATE, DEFAULT_DEVICE_BUFFER_SIZE),
                          !.last = [NoLatCall EXCEPT !.op = "init",
                                                     !.before = lat.internal]]
    /\ UNCHANGED <<cli, thr, vars, evars>>

\* time passes
DoClockAdvance ==
    \E step \in ClockSteps :
        /\ lat.advances < MaxAdvances
        /\ lat' = [lat EXCEPT !.now = U64Add(lat.now, U64(step)),
                              !.advances = lat.advances + 1]
        /\ UNCHANGED <<cli, thr, vars, evars>>

DoProcessPacket ==
    \E rtt \in RoundTrips, audio_proc \in ProcessingTimes :
        LET packet == PacketAt(lat.now, rtt, audio_proc)
            r == latency_manager_process_packet(lat.internal, packet, lat.now, lat.now)
            completed == r.internal.rtt_stat.count = 0
        IN  /\ lat.packets < MaxLatPackets
            /\ lat' = [lat EXCEPT !.internal = r.internal,
                                  !.packets = lat.packets + 1,
                                  !.xruns = IF completed
                                            THEN xruns_window_completed(lat.xruns)
                                            ELSE lat.xruns,
                                  !.windows = IF completed THEN lat.windows + 1
                                              ELSE lat.windows,
                                  !.fill_values = IF completed THEN <<>> ELSE @,
                                  !.last = [op |-> "process_packet", packet |-> packet,
                                            now |-> lat.now, before |-> lat.internal,
                                            returned |-> r.packet]]
            /\ UNCHANGED <<cli, thr, vars, evars>>

DoReportRingBufferFillLevel ==
    \E fill_level \in FillLevels :
        /\ lat.fill_reports < MaxFillReports
        /\ lat' = [lat EXCEPT !.internal = latency_manager_report_ring_buffer_fill_level(
                                               lat.internal, fill_level),
                              !.fill_reports = lat.fill_reports + 1,
                              !.fill_values = Append(@, fill_level),
                              !.last = [NoLatCall EXCEPT !.op = "report_fill_level"]]
        /\ UNCHANGED <<cli, thr, vars, evars>>

DoReportXrun ==
    /\ lat.xrun_reports < MaxXrunReports
    /\ lat' = [lat EXCEPT !.xruns = latency_manager_report_xrun(lat.xruns),
                          !.xrun_reports = lat.xrun_reports + 1,
                          !.last = [NoLatCall EXCEPT !.op = "report_xrun"]]
    /\ UNCHANGED <<cli, thr, vars, evars>>

DoGetCurrentMetrics ==
    /\ lat.last.op # "get_current_metrics"
    /\ lat' = [lat EXCEPT !.last = [NoLatCall EXCEPT
                              !.op = "get_current_metrics", !.now = lat.now,
                              !.returned = latency_manger_get_current_metrics(lat.internal)]]
    /\ UNCHANGED <<cli, thr, vars, evars>>

LatencyNext ==
    \/ DoLatencyManagerInit
    \/ DoClockAdvance
    \/ DoProcessPacket
    \/ DoReportRingBufferFillLevel
    \/ DoReportXrun
    \/ DoGetCurrentMetrics

LatencySpec == LatencyInit /\ [][LatencyNext]_allvars

\* the statistic a call of latency_manager_process_packet has folded its
\* sample into: the running one, or the snapshot if the call also reported
Folded(st, stat, stat_current) ==
    IF st[stat].count = 0 THEN st[stat_current] ELSE st[stat]

\* C23: the xruns field of the snapshot is the number of report_xrun calls
\* made during the last completed report window.
C23_SnapshotCountsXruns ==
    lat.windows >= 1 =>
        latency_manger_get_current_metrics(lat.internal).xruns = lat.xruns.completed

\* C25: latency_manager_process_packet overwrites the packet's t4 with the
\* clock at arrival and folds exactly t4 - t1 into the round-trip statistic
\* and t3 - t2 into the processing statistic, in nanoseconds; t1 = 1 000 000,
\* t4 = 2 500 000, t2 = 1 100 000, t3 = 2 300 000 fold 1 500 000 and 1 200 000.
C25_FoldsRttAndProcessing ==
    lat.last.op = "process_packet" =>
        LET p == lat.last.packet
            before == lat.last.before
            rtt_stat == Folded(lat.internal, "rtt_stat", "rtt_stat_current")
            audio_proc_stat == Folded(lat.internal, "audio_proc_stat",
                                      "audio_proc_stat_current")
            rtt == U64Sub(lat.last.now, p.t1_linux_send)
            audio_proc == U64Sub(p.t3_windows_send, p.t2_windows_recv)
        IN  /\ lat.last.returned = [p EXCEPT !.t4_linux_recv = lat.last.now]
            /\ rtt_stat.count = before.rtt_stat.count + 1
            /\ rtt_stat.total = U64Add(before.rtt_stat.total, rtt)
            /\ audio_proc_stat.count = before.audio_proc_stat.count + 1
            /\ audio_proc_stat.total = U64Add(before.audio_proc_stat.total, audio_proc)
            /\ before.rtt_stat.count = 0 =>
                  /\ rtt_stat.min = rtt /\ rtt_stat.max = rtt /\ rtt_stat.avg = rtt
                  /\ audio_proc_stat.avg = audio_proc
            /\ (/\ p.t1_linux_send = U64(1000000) /\ lat.last.now = U64(2500000)
                /\ p.t2_windows_recv = U64(1100000)
                /\ p.t3_windows_send = U64(2300000)) =>
                  /\ rtt = U64(1500000)
                  /\ audio_proc = U64(1200000)

\* the packet of the example was the first to be processed
C25_Witness ==
    /\ lat.last.op = "process_packet"
    /\ lat.last.packet.t1_linux_send = U64(1000000)
    /\ lat.last.packet.t2_windows_recv = U64(1100000)
    /\ lat.last.packet.t3_windows_send = U64(2300000)
    /\ lat.last.packet.t4_linux_recv = U64(0)
    /\ lat.last.returned.t4_linux_recv = U64(2500000)
    /\ lat.internal.rtt_stat = [min |-> U64(1500000), max |-> U64(1500000),
                                avg |-> U64(1500000), total |-> U64(1500000),
                                count |-> 1]
    /\ lat.internal.audio_proc_stat.total = U64(1200000)

\* no packet has arrived for a whole report period
PeerSilent == ~U64Lt(U64Sub(lat.now, lat.internal.last_linux_recv), U64(REPORT_PERIOD_NS))

\* C26: when no packet was received during a whole report period, the
\* snapshot holds no round-trip sample: its RTT count and RTT values are zero.
C26_SilentPeriodShowsNoRtt ==
    PeerSilent =>
        LET metrics == latency_manger_get_current_metrics(lat.internal)
        IN  /\ lat.internal.rtt_stat_current.count = 0
            /\ metrics.rtt_min_ms.value = U64(0)
            /\ metrics.rtt_max_ms.value = U64(0)
            /\ metrics.rtt_avg_ms.value = U64(0)

\* ============================== pwar_ring_buffer.c under two threads
\* The receive task pushes and the audio callback pops, each statement of a
\* call being a step of its own; the buffer was initialised before the
\* threads were started.
MaxConcCalls == 2

\* mutant: pthread_mutex_lock that never waits
mutex_available_always(mutex) == TRUE

\* pthread_mutex_lock(&ring_buffer.mutex) returns only when no thread holds it
mutex_available(mutex) == mutex = "free"

IdlePush == [pc |-> "idle", buffer |-> NULL, n |-> 0, channels |-> 0, i |-> 0,
             available_exact |-> U32(0), expect |-> NULL, result |-> NULL,
             contended |-> FALSE]

IdlePop == [pc |-> "idle", samples |-> NULL, n |-> 0, channels |-> 0, i |-> 0,
            expect |-> NULL, result |-> NULL, contended |-> FALSE]

\* what the ring buffer specification tracks about single calls stays as it is
conc_unchanged == <<expected_buffer_size, last, pushed, popped, xrun_reported,
                    after_underrun, evars, lat, cli>>

RingConcInit ==
    /\ \E depth \in Depths, channels \in ChannelCounts :
          ring_buffer = pwar_ring_buffer_init(ZeroStruct, depth, channels, TRUE)
    /\ expected_buffer_size = 0
    /\ last = NoCall
    /\ next_base = 1
    /\ pushed = <<>>
    /\ popped = <<>>
    /\ xrun_reported = FALSE
    /\ after_underrun = "no"
    /\ NoEngine
    /\ lat = NULL
    /\ cli = NULL
    /\ \E rb \in {ring_buffer} :
          thr = [mutex |-> "free", push |-> IdlePush, pop |-> IdlePop,
                 pushes |-> 0, pops |-> 0,
                 \* the struct after the calls so far, each taken as a whole
                 \* at the moment it passed its checks or took the mutex
                 linear |-> rb]

\* ---- the receive task: pwar_ring_buffer_push(buffer, n_samples, channels)
\* the call and its checks of ring_buffer.buffer, buffer and channels
PushBegin ==
    \E n \in FrameCounts, arg \in PointerArgs :
        LET channels == arg[1]
            data == IF arg[2] THEN NULL ELSE InputArray(channels, n)
            rejected == push_rejected(ring_buffer, data, channels)
            whole == pwar_ring_buffer_push(thr.linear, data, n, channels)
        IN  /\ thr.push.pc \in {"idle", "returned"}
            /\ thr.pushes < MaxConcCalls
            /\ next_base + n <= MaxFrames + 1
            /\ next_base' = IF rejected THEN next_base ELSE next_base + n
            /\ thr' = [thr EXCEPT
                  !.pushes = @ + 1,
                  !.linear = IF rejected THEN whole.rb ELSE @,
                  !.push = [IdlePush EXCEPT
                      !.pc = IF rejected THEN "returned" ELSE "lock",
                      !.buffer = data, !.n = n, !.channels = channels,
                      !.expect = IF rejected THEN [ret |-> whole.ret] ELSE NULL,
                      !.result = IF rejected THEN [ret |-> -1] ELSE NULL]]
            /\ UNCHANGED <<ring_buffer, conc_unchanged>>

PushLock ==
    LET whole == pwar_ring_buffer_push(thr.linear, thr.push.buffer, thr.push.n,
                                       thr.push.channels)
    IN  /\ thr.push.pc = "lock"
        /\ mutex_available(thr.mutex)
        /\ thr' = [thr EXCEPT !.mutex = "push", !.linear = whole.rb,
                              !.push.pc = "overrun",
                              !.push.expect = [ret |-> whole.ret]]
        /\ UNCHANGED <<ring_buffer, next_base, conc_unchanged>>

\* free_space and the overrun branch
PushOverrun ==
    LET samples_to_write == U32(thr.push.n)
        free_space == U32Sub(U32(ring_buffer.depth), U32(ring_buffer.available))
        overrun == push_overrun_detected(samples_to_write, free_space)
        samples_to_skip == U32Sub(samples_to_write, free_space)
        \* available -= samples_to_skip, modulo 2^32
        available == IF overrun THEN U32Sub(U32(ring_buffer.available), samples_to_skip)
                     ELSE U32(ring_buffer.available)
    IN  /\ thr.push.pc = "overrun"
        /\ ring_buffer' =
              IF overrun
              THEN [push_skip_oldest(ring_buffer, samples_to_skip)
                       EXCEPT !.available = U32Val(available)]
              ELSE ring_buffer
        /\ thr' = [thr EXCEPT !.push.pc = IF thr.push.n = 0 THEN "available" ELSE "copy",
                              !.push.available_exact = available]
        /\ UNCHANGED <<next_base, conc_unchanged>>

\* one iteration of the copy loop
PushCopy ==
    /\ thr.push.pc = "copy"
    /\ ring_buffer' = push_loop(ring_buffer, thr.push.buffer, thr.push.i + 1,
                                thr.push.channels, thr.push.i)
    /\ thr' = [thr EXCEPT !.push.i = @ + 1,
                          !.push.pc = IF thr.push.i + 1 = thr.push.n
                                      THEN "available" ELSE "copy"]
    /\ UNCHANGED <<next_base, conc_unchanged>>

\* ring_buffer.available += samples_to_write
PushAvailable ==
    /\ thr.push.pc = "available"
    /\ ring_buffer' = [ring_buffer EXCEPT !.available =
                          U32Val(U32Add(thr.push.available_exact, U32(thr.push.n)))]
    /\ thr' = [thr EXCEPT !.push.pc = "unlock"]
    /\ UNCHANGED <<next_base, conc_unchanged>>

\* pthread_mutex_unlock and return 1
PushUnlock ==
    /\ thr.push.pc = "unlock"
    /\ thr' = [thr EXCEPT !.mutex = "free", !.push.pc = "returned",
                          !.push.result = [ret |-> 1],
                          !.push.contended = thr.pop.pc = "lock"]
    /\ UNCHANGED <<ring_buffer, next_base, conc_unchanged>>

\* ---- the audio callback: pwar_ring_buffer_pop(samples, n_samples, channels)
PopBegin ==
    \E n \in FrameCounts, arg \in PointerArgs :
        LET channels == arg[1]
            samples == IF arg[2] THEN NULL ELSE JunkArray(channels, n)
            rejected == pop_rejected(ring_buffer, samples, channels)
            whole == pwar_ring_buffer_pop(thr.linear, samples, n, channels)
        IN  /\ thr.pop.pc \in {"idle", "returned"}
            /\ thr.pops < MaxConcCalls
            /\ thr' = [thr EXCEPT
                  !.pops = @ + 1,
                  !.linear = IF rejected THEN whole.rb ELSE @,
                  !.pop = [IdlePop EXCEPT
                      !.pc = IF rejected THEN "returned" ELSE "lock",
                      !.samples = samples, !.n = n, !.channels = channels,
                      !.expect = IF rejected
                                 THEN [ret |-> whole.ret, out |-> whole.out]
                                 ELSE NULL,
                      !.result = IF rejected THEN [ret |-> -1, out |-> samples]
                                 ELSE NULL]]
            /\ UNCHANGED <<ring_buffer, next_base, conc_unchanged>>

PopLock ==
    LET whole == pwar_ring_buffer_pop(thr.linear, thr.pop.samples, thr.pop.n,
                                      thr.pop.channels)
    IN  /\ thr.pop.pc = "lock"
        /\ mutex_available(thr.mutex)
        /\ thr' = [thr EXCEPT !.mutex = "pop", !.linear = whole.rb,
                              !.pop.pc = "underrun",
                              !.pop.expect = [ret |-> whole.ret, out |-> whole.out]]
        /\ UNCHANGED <<ring_buffer, next_base, conc_unchanged>>

\* the underrun test; on an underrun the counter and the memset
PopUnderrun ==
    LET underrun == pop_underrun_detected(U32(thr.pop.n), U32(ring_buffer.available))
    IN  /\ thr.pop.pc = "underrun"
        /\ ring_buffer' = IF underrun THEN [ring_buffer EXCEPT !.underruns = @ + 1]
                          ELSE ring_buffer
        /\ thr' = [thr EXCEPT
              !.pop.samples = IF underrun
                              THEN memset_zero(@, thr.pop.n * thr.pop.channels)
                              ELSE @,
              !.pop.pc = IF underrun THEN "prefill"
                         ELSE IF thr.pop.n = 0 THEN "available" ELSE "copy"]
        /\ UNCHANGED <<next_base, conc_unchanged>>

\* prefill_buffer() of the underrun branch
PopPrefill ==
    /\ thr.pop.pc = "prefill"
    /\ ring_buffer' = prefill_buffer(ring_buffer)
    /\ thr' = [thr EXCEPT !.pop.pc = "unlock"]
    /\ UNCHANGED <<next_base, conc_unchanged>>

\* one iteration of the copy loop
PopCopy ==
    LET read == pop_loop(ring_buffer, thr.pop.samples, thr.pop.i + 1,
                         thr.pop.channels, thr.pop.i)
    IN  /\ thr.pop.pc = "copy"
        /\ ring_buffer' = read.rb
        /\ thr' = [thr EXCEPT !.pop.samples = read.samples,
                              !.pop.i = @ + 1,
                              !.pop.pc = IF thr.pop.i + 1 = thr.pop.n
                                         THEN "available" ELSE "copy"]
        /\ UNCHANGED <<next_base, conc_unchanged>>

\* ring_buffer.available -= samples_to_read
PopAvailable ==
    /\ thr.pop.pc = "available"
    /\ ring_buffer' = [ring_buffer EXCEPT !.available =
                          U32Val(U32Sub(U32(@), U32(thr.pop.n)))]
    /\ thr' = [thr EXCEPT !.pop.pc = "unlock"]
    /\ UNCHANGED <<next_base, conc_unchanged>>

\* pthread_mutex_unlock and return
PopUnlock ==
    /\ thr.pop.pc = "unlock"
    /\ thr' = [thr EXCEPT !.mutex = "free", !.pop.pc = "returned",
                          !.pop.result = [ret |-> thr.pop.n, out |-> thr.pop.samples],
                          !.pop.contended = thr.push.pc = "lock"]
    /\ UNCHANGED <<ring_buffer, next_base, conc_unchanged>>

RingConcNext ==
    \/ PushBegin
    \/ PushLock
    \/ PushOverrun
    \/ PushCopy
    \/ PushAvailable
    \/ PushUnlock
    \/ PopBegin
    \/ PopLock
    \/ PopUnderrun
    \/ PopPrefill
    \/ PopCopy
    \/ PopAvailable
    \/ PopUnlock

RingConcSpec == RingConcInit /\ [][RingConcNext]_allvars

InCriticalSection(t) == t.pc \in {"overrun", "underrun", "prefill", "copy",
                                  "available", "unlock"}

\* C29: with one thread pushing and one popping, every call takes effect as a
\* whole: whenever the mutex is free the struct is the one the calls made so
\* far produce one after the other, every return value and every array of
\* popped frames is the one that sequential order gives, the two critical
\* sections never overlap, and available is within [0, depth].
C29_PushPopLinearizable ==
    /\ ~(InCriticalSection(thr.push) /\ InCriticalSection(thr.pop))
    /\ thr.mutex = "free" =>
          /\ ring_buffer = thr.linear
          /\ ring_buffer.available \in 0..ring_buffer.depth
    /\ thr.push.pc = "returned" => thr.push.result = thr.push.expect
    /\ thr.pop.pc = "returned" => thr.pop.result = thr.pop.expect

\* a pop returned frames of an earlier push while the next push was waiting
\* for the mutex
C29_Witness ==
    /\ thr.pop.pc = "returned"
    /\ thr.pop.contended
    /\ thr.pop.result.ret > 0
    /\ \E k \in 1..Len(thr.pop.result.out) : thr.pop.result.out[k] > 0
    /\ thr.push.pc = "lock"
    /\ ring_buffer.overruns > 0

\* --------------------------------------------- claims on latency_manager.c
RunningStats == {"rtt_stat", "audio_proc_stat", "windows_rcv_delta_stat",
                 "linux_rcv_delta_stat", "ring_buffer_fill_level_stat"}

\* the snapshot copy of a running statistic
Current(name) ==
    CASE name = "rtt_stat" -> "rtt_stat_current"
      [] name = "audio_proc_stat" -> "audio_proc_stat_current"
      [] name = "windows_rcv_delta_stat" -> "windows_rcv_delta_stat_current"
      [] name = "linux_rcv_delta_stat" -> "linux_rcv_delta_stat_current"
      [] name = "ring_buffer_fill_level_stat" -> "ring_buffer_fill_level_stat_current"

RECURSIVE SeqSum(_)
SeqSum(s) == IF s = <<>> THEN 0 ELSE Head(s) + SeqSum(Tail(s))

SeqMin(s) == CHOOSE v \in {s[i] : i \in 1..Len(s)} : \A i \in 1..Len(s) : v <= s[i]

SeqMax(s) == CHOOSE v \in {s[i] : i \in 1..Len(s)} : \A i \in 1..Len(s) : v >= s[i]

\* C33: latency_manager_process_packet rolls the report window over exactly
\* when at least 2 000 000 000 ns have passed since the last rollover (the
\* first packet only starts the window); a rollover copies the five running
\* statistics, the current packet included, to the snapshot, zeroes them and
\* sets the last-report time to the current time; any other call leaves the
\* snapshot and the last-report time as they were.
C33_RolloverEveryReportPeriod ==
    lat.last.op = "process_packet" =>
        LET before == lat.last.before
            now == lat.last.now
            first == before.last_print_time = U64(0)
            elapsed == U64Sub(now, before.last_print_time)
            due == ~first /\ ~U64Lt(elapsed, U64(REPORT_PERIOD_NS))
            rolled == \A name \in RunningStats : lat.internal[name] = ZeroStat
        IN  /\ rolled <=> due
            /\ due =>
                  /\ \A name \in RunningStats \ {"ring_buffer_fill_level_stat"} :
                        lat.internal[Current(name)].count = before[name].count + 1
                  /\ lat.internal.rtt_stat_current.total =
                        U64Add(before.rtt_stat.total,
                               U64Sub(now, lat.last.packet.t1_linux_send))
                  /\ lat.internal.ring_buffer_fill_level_stat_current =
                        before.ring_buffer_fill_level_stat
                  /\ lat.internal.last_print_time = now
            /\ ~due =>
                  /\ \A name \in RunningStats :
                        lat.internal[Current(name)] = before[Current(name)]
                  /\ lat.internal.last_print_time =
                        IF first THEN now ELSE before.last_print_time
                  /\ lat.internal.rtt_stat.count = before.rtt_stat.count + 1

\* the packet arrived exactly one report period after the window started and
\* closed a window that held two packets and a fill level
C33_Witness ==
    /\ lat.last.op = "process_packet"
    /\ U64Sub(lat.last.now, lat.last.before.last_print_time) = U64(REPORT_PERIOD_NS)
    /\ lat.internal.rtt_stat = ZeroStat
    /\ lat.internal.rtt_stat_current.count = 2
    /\ lat.internal.ring_buffer_fill_level_stat_current.count >= 1
    /\ lat.internal.last_print_time = lat.last.now

\* C34: the values folded into a statistic since it was zeroed give min, max,
\* total = their sum, count = their number and avg = floor(total / count), so
\* min <= avg <= max whenever count > 0; the first value after a window reset
\* sets min and max whatever the window before held.
C34_FoldedStatistic ==
    LET stat == lat.internal.ring_buffer_fill_level_stat
        v == lat.fill_values
    IN  /\ stat.count = Len(v)
        /\ Len(v) >= 1 =>
              /\ stat.min = U64(SeqMin(v))
              /\ stat.max = U64(SeqMax(v))
              /\ stat.total = U64(SeqSum(v))
              /\ stat.avg = U64(SeqSum(v) \div Len(v))
        /\ \A name \in RunningStats :
              \A t \in {lat.internal[name], lat.internal[Current(name)]} :
                 t.count > 0 => ~U64Lt(t.avg, t.min) /\ ~U64Lt(t.max, t.avg)

\* the window before held a smaller fill level than the first of this window
C34_Witness ==
    /\ lat.internal.ring_buffer_fill_level_stat_current.count = 1
    /\ lat.internal.ring_buffer_fill_level_stat_current.min = U64(32)
    /\ lat.fill_values = <<64>>
    /\ lat.internal.ring_buffer_fill_level_stat.min = U64(64)
    /\ lat.internal.ring_buffer_fill_level_stat.max = U64(64)

\* C35: after latency_manager_init every running statistic and the snapshot
\* are zero, the previous t2, the previous t4 and the last-report time are
\* cleared, and the expected interval and the sample rate are the arguments'.
C35_InitResetsManager ==
    lat.last.op = "init" =>
        lat.internal = latency_manager_init(ZeroInternal, DEFAULT_SAMPLE_RATE,
                                            DEFAULT_DEVICE_BUFFER_SIZE)

\* C36: the jitter statistics receive t2 and t4 of the packet minus t2 and t4
\* of the packet processed before it, and the first packet processed, having
\* no predecessor, contributes no jitter sample.
C36_JitterBetweenSuccessivePackets ==
    lat.last.op = "process_packet" =>
        LET before == lat.last.before
            p == lat.last.returned
            windows_stat == Folded(lat.internal, "windows_rcv_delta_stat",
                                   "windows_rcv_delta_stat_current")
            linux_stat == Folded(lat.internal, "linux_rcv_delta_stat",
                                 "linux_rcv_delta_stat_current")
        IN  IF lat.packets = 1
            THEN /\ lat.internal.windows_rcv_delta_stat.count = 0
                 /\ lat.internal.linux_rcv_delta_stat.count = 0
            ELSE /\ windows_stat.total =
                       U64Add(before.windows_rcv_delta_stat.total,
                              U64Sub(p.t2_windows_recv, before.last_windows_recv))
                 /\ linux_stat.total =
                       U64Add(before.linux_rcv_delta_stat.total,
                              U64Sub(p.t4_linux_recv, before.last_linux_recv))

\* ================= latency_manager.c under the receive and control threads
\* receiver_thread calls latency_manager_process_packet while the control
\* thread calls latency_manger_get_current_metrics; latency_manager.c takes
\* no lock, so the statements of the two calls interleave.
MaxQueries == 2

\* the order in which a rollover assigns the _current copies
CopyOrder == <<"ring_buffer_fill_level_stat", "rtt_stat", "audio_proc_stat",
               "windows_rcv_delta_stat", "linux_rcv_delta_stat">>

\* the order in which latency_manger_get_current_metrics reads them
ReadOrder == <<"rtt_stat", "audio_proc_stat", "windows_rcv_delta_stat",
               "linux_rcv_delta_stat", "ring_buffer_fill_level_stat">>

\* the snapshot part of the struct
SnapshotOf(st) == [name \in RunningStats |-> st[Current(name)]]

\* the struct whose snapshot part is seen
WithSnapshot(st, seen) ==
    [st EXCEPT !.rtt_stat_current = seen["rtt_stat"],
               !.audio_proc_stat_current = seen["audio_proc_stat"],
               !.windows_rcv_delta_stat_current = seen["windows_rcv_delta_stat"],
               !.linux_rcv_delta_stat_current = seen["linux_rcv_delta_stat"],
               !.ring_buffer_fill_level_stat_current = seen["ring_buffer_fill_level_stat"]]

latconc_unchanged == <<vars, evars, cli>>

LatConcInit ==
    /\ lat = LatencyStart
    /\ thr = [recv |-> [pc |-> "idle", i |-> 0],
              query |-> [pc |-> "idle", i |-> 0, seen |-> SnapshotOf(ZeroInternal),
                         returned |-> NULL],
              queries |-> 0,
              \* the snapshots of the windows completed so far
              completed |-> {SnapshotOf(ZeroInternal)}]
    /\ cli = NULL
    /\ RingInit
    /\ NoEngine

\* time passes
ConcClockAdvance ==
    \E step \in ClockSteps :
        /\ lat.advances < MaxAdvances
        /\ lat' = [lat EXCEPT !.now = U64Add(lat.now, U64(step)),
                              !.advances = lat.advances + 1]
        /\ UNCHANGED <<thr, latconc_unchanged>>

\* ---- receiver_thread: latency_manager_process_packet(packet)
\* t4, the four process_latency_stat calls and the test of the report period
RecvFold ==
    \E rtt \in RoundTrips, audio_proc \in ProcessingTimes :
        LET p == [PacketAt(lat.now, rtt, audio_proc) EXCEPT !.t4_linux_recv = lat.now]
            folded == fold_packet(lat.internal, p)
            s == IF folded.last_print_time = U64(0)
                 THEN [folded EXCEPT !.last_print_time = lat.now] ELSE folded
            due == ~U64Lt(U64Sub(lat.now, s.last_print_time), U64(REPORT_PERIOD_NS))
        IN  /\ thr.recv.pc = "idle"
            /\ lat.packets < MaxLatPackets
            /\ lat' = [lat EXCEPT !.internal = s, !.packets = lat.packets + 1]
            /\ thr' = [thr EXCEPT !.recv = [pc |-> IF due THEN "copy" ELSE "idle",
                                            i |-> IF due THEN 1 ELSE 0]]
            /\ UNCHANGED latconc_unchanged

\* internal.x_stat_current = internal.x_stat, one statistic
RecvCopy ==
    LET name == CopyOrder[thr.recv.i]
    IN  /\ thr.recv.pc = "copy"
        /\ lat' = [lat EXCEPT !.internal[Current(name)] = lat.internal[name]]
        /\ thr' = [thr EXCEPT !.recv.i = IF @ = Len(CopyOrder) THEN 0 ELSE @ + 1,
                              !.recv.pc = IF thr.recv.i = Len(CopyOrder)
                                          THEN "reset" ELSE "copy"]
        /\ UNCHANGED latconc_unchanged

\* the running statistics are zeroed and last_print_time is set
RecvReset ==
    /\ thr.recv.pc = "reset"
    /\ lat' = [lat EXCEPT !.internal =
                  [lat.internal EXCEPT
                      !.rtt_stat = ZeroStat, !.audio_proc_stat = ZeroStat,
                      !.windows_rcv_delta_stat = ZeroStat,
                      !.linux_rcv_delta_stat = ZeroStat,
                      !.ring_buffer_fill_level_stat = ZeroStat,
                      !.last_print_time = lat.now],
                          !.windows = lat.windows + 1]
    /\ thr' = [thr EXCEPT !.recv.pc = "idle",
                          !.completed = @ \cup {SnapshotOf(lat.internal)}]
    /\ UNCHANGED latconc_unchanged

\* ---- control thread: latency_manger_get_current_metrics(metrics)
QueryBegin ==
    /\ thr.query.pc \in {"idle", "returned"}
    /\ thr.queries < MaxQueries
    /\ thr' = [thr EXCEPT !.queries = @ + 1,
                          !.query = [pc |-> "read", i |-> 1,
                                     seen |-> SnapshotOf(ZeroInternal),
                                     returned |-> NULL]]
    /\ UNCHANGED <<lat, latconc_unchanged>>

\* min, max and avg of one _current statistic are read
QueryRead ==
    LET name == ReadOrder[thr.query.i]
    IN  /\ thr.query.pc = "read"
        /\ thr' = [thr EXCEPT
              !.query.seen[name] = lat.internal[Current(name)],
              !.query.i = IF @ = Len(ReadOrder) THEN 0 ELSE @ + 1,
              !.query.pc = IF thr.query.i = Len(ReadOrder) THEN "return" ELSE "read"]
        /\ UNCHANGED <<lat, latconc_unchanged>>

\* metrics->xruns = 0 and return
QueryReturn ==
    /\ thr.query.pc = "return"
    /\ thr' = [thr EXCEPT
          !.query.pc = "returned",
          !.query.returned = latency_manger_get_current_metrics(
                                 WithSnapshot(lat.internal, thr.query.seen))]
    /\ UNCHANGED <<lat, latconc_unchanged>>

LatConcNext ==
    \/ ConcClockAdvance
    \/ RecvFold
    \/ RecvCopy
    \/ RecvReset
    \/ QueryBegin
    \/ QueryRead
    \/ QueryReturn

LatConcSpec == LatConcInit /\ [][LatConcNext]_allvars

\* C32: a snapshot query that runs while the receive thread processes a
\* packet returns the statistics of one completed window, never a mix of two
\* windows.
C32_SnapshotOfOneWindow ==
    thr.query.pc = "returned" =>
        \E window \in thr.completed :
            thr.query.returned =
                latency_manger_get_current_metrics(WithSnapshot(lat.internal, window))

\* ========================== simulated_backend.c and alsa_backend.c
\* The control thread calls the backend's start and stop (as pwar_start,
\* pwar_stop and pwar_cleanup do through audio_backend_start and
\* audio_backend_stop) while the backend's audio thread runs its loop.
MaxStarts == 2
MaxCallbacks == 2

BackendKinds == {"simulated", "alsa"}

\* the backend after its init: no thread, not running
BackendStart(kind) ==
    [kind |-> kind,
     running |-> 0,             \* backend->running
     data_running |-> 0,        \* simulated: data->running
     should_stop |-> 0,         \* alsa: data->should_stop
     thread |-> "none",         \* "none", "starting", "loop", "callback", "exited"
     userdata |-> "valid"]

\* the start operation up to the return of pthread_create; create_ok: the
\* thread was created; pc: where the call goes on
backend_start(b, create_ok) ==
    IF b.kind = "simulated"
    THEN IF b.data_running = 1 THEN [b |-> b, ret |-> 0, pc |-> "idle"]
         ELSE IF create_ok
         THEN [b |-> [b EXCEPT !.data_running = 1, !.running = 1, !.thread = "starting"],
               ret |-> 0, pc |-> "idle"]
         ELSE [b |-> [b EXCEPT !.data_running = 0, !.running = 0],
               ret |-> -1, pc |-> "idle"]
    ELSE IF b.running = 1 THEN [b |-> b, ret |-> -1, pc |-> "idle"]
         ELSE IF create_ok
         THEN [b |-> [b EXCEPT !.should_stop = 0, !.thread = "starting"],
               ret |-> 0, pc |-> "alsa_start"]
         ELSE [b |-> [b EXCEPT !.should_stop = 0], ret |-> -1, pc |-> "idle"]

\* mutant: a stop that sets the flag and returns without pthread_join
backend_stop_detached(b) ==
    IF b.kind = "simulated"
    THEN IF b.data_running = 0 THEN [b |-> b, ret |-> 0, pc |-> "idle"]
         ELSE [b |-> [b EXCEPT !.data_running = 0, !.running = 0],
               ret |-> 0, pc |-> "idle"]
    ELSE IF b.running = 0 THEN [b |-> b, ret |-> -1, pc |-> "idle"]
         ELSE [b |-> [b EXCEPT !.should_stop = 1, !.running = 0],
               ret |-> 0, pc |-> "idle"]

\* the stop operation up to its pthread_join
backend_stop(b) ==
    IF b.kind = "simulated"
    THEN IF b.data_running = 0 THEN [b |-> b, ret |-> 0, pc |-> "idle"]
         ELSE [b |-> [b EXCEPT !.data_running = 0, !.running = 0],
               ret |-> 0, pc |-> "join"]
    ELSE IF b.running = 0 THEN [b |-> b, ret |-> -1, pc |-> "idle"]
         ELSE [b |-> [b EXCEPT !.should_stop = 1], ret |-> 0, pc |-> "join"]

\* the stop operation from the return of pthread_join on
backend_stop_joined(b) ==
    [b EXCEPT !.thread = joined(b.thread),
              !.running = IF b.kind = "alsa" THEN 0 ELSE @]

\* while (data->running) / while (!data->should_stop)
loop_continues(b) ==
    IF b.kind = "simulated" THEN b.data_running # 0 ELSE b.should_stop = 0

backend_unchanged == <<vars, evars, lat, cli>>

BackendInit ==
    /\ \E kind \in BackendKinds :
          thr = [backend |-> BackendStart(kind), ctl |-> "idle",
                 starts |-> 0, callbacks |-> 0,
                 last |-> [op |-> "init", ret |-> 0, callbacks |-> 0]]
    /\ lat = NULL
    /\ cli = NULL
    /\ RingInit
    /\ NoEngine

\* ---- control thread
DoBackendStart ==
    \E create_ok \in BOOLEAN :
        LET r == backend_start(thr.backend, create_ok)
        IN  /\ thr.ctl = "idle"
            /\ thr.starts < MaxStarts
            /\ thr.backend.userdata = "valid"
            /\ thr' = [thr EXCEPT !.backend = r.b, !.ctl = r.pc,
                                  !.starts = @ + 1,
                                  !.last = IF r.pc = "idle"
                                           THEN [op |-> "start", ret |-> r.ret,
                                                 callbacks |-> thr.callbacks]
                                           ELSE @]
            /\ UNCHANGED backend_unchanged

\* alsa_start: backend->running = 1; return 0
AlsaStartReturns ==
    /\ thr.ctl = "alsa_start"
    /\ thr' = [thr EXCEPT !.backend.running = 1, !.ctl = "idle",
                          !.last = [op |-> "start", ret |-> 0,
                                    callbacks |-> thr.callbacks]]
    /\ UNCHANGED backend_unchanged

DoBackendStop ==
    LET r == backend_stop(thr.backend)
    IN  /\ thr.ctl = "idle"
        /\ thr' = [thr EXCEPT !.backend = r.b, !.ctl = r.pc,
                              !.last = IF r.pc = "idle"
                                       THEN [op |-> "stop", ret |-> r.ret,
                                             callbacks |-> thr.callbacks]
                                       ELSE @]
        /\ UNCHANGED backend_unchanged

\* pthread_join(thread, NULL) returns and stop returns 0
BackendStopReturns ==
    /\ thr.ctl = "join"
    /\ pthread_join_returns(thr.backend.thread)
    /\ thr' = [thr EXCEPT !.backend = backend_stop_joined(thr.backend),
                          !.ctl = "idle",
                          !.last = [op |-> "stop", ret |-> 0,
                                    callbacks |-> thr.callbacks]]
    /\ UNCHANGED backend_unchanged

\* the caller frees what the callback's user data points to
FreeUserdata ==
    /\ thr.ctl = "idle"
    /\ thr.last.op = "stop"
    /\ thr.backend.userdata = "valid"
    /\ thr' = [thr EXCEPT !.backend.userdata = "freed"]
    /\ UNCHANGED backend_unchanged

\* ---- audio thread
\* simulated_thread allocates its buffers and may fail to; alsa_audio_thread
\* has nothing to allocate
AudioThreadStarts ==
    \E alloc_ok \in BOOLEAN :
        /\ thr.backend.thread = "starting"
        /\ alloc_ok \/ thr.backend.kind = "simulated"
        /\ thr' = [thr EXCEPT !.backend.thread = IF alloc_ok THEN "loop" ELSE "exited"]
        /\ UNCHANGED backend_unchanged

AudioThreadLoopTest ==
    /\ thr.backend.thread = "loop"
    /\ loop_continues(thr.backend) => thr.callbacks < MaxCallbacks
    /\ thr' = [thr EXCEPT !.backend.thread =
                  IF loop_continues(thr.backend) THEN "callback" ELSE "exited"]
    /\ UNCHANGED backend_unchanged

\* the callback runs and returns
AudioThreadCallback ==
    /\ thr.backend.thread = "callback"
    /\ thr' = [thr EXCEPT !.backend.thread = "loop", !.callbacks = @ + 1]
    /\ UNCHANGED backend_unchanged

BackendNext ==
    \/ DoBackendStart
    \/ AlsaStartReturns
    \/ DoBackendStop
    \/ BackendStopReturns
    \/ FreeUserdata
    \/ AudioThreadStarts
    \/ AudioThreadLoopTest
    \/ AudioThreadCallback

BackendSpec == BackendInit /\ [][BackendNext]_allvars

\* C31: when the backend's stop has returned, the audio thread has ended and
\* was joined: the callback is not executing and is not invoked again before
\* the next successful start, so the callback never runs on freed user data.
C31_StopIsSynchronous ==
    /\ (thr.ctl = "idle" /\ thr.last.op = "stop") =>
          /\ thr.backend.thread = "none"
          /\ thr.callbacks = thr.last.callbacks
          /\ thr.backend.running = 0
    /\ thr.backend.thread = "callback" => thr.backend.userdata = "valid"

\* the ALSA backend was restarted, ran a callback after the restart, was
\* stopped again and the user data was freed
C31_Witness ==
    /\ thr.backend.kind = "alsa"
    /\ thr.ctl = "idle"
    /\ thr.last = [op |-> "stop", ret |-> 0, callbacks |-> 2]
    /\ thr.starts = 2
    /\ thr.backend.userdata = "freed"

\* ---------------------------------------------------------------------------
\* One-shot mode: process_one_shot against receiver_thread and the peer
\* ---------------------------------------------------------------------------
\* Packets are modelled by their seq: the peer copies the request into its
\* response, so the samples of response s are the inputs of callback s.

MaxPeriods == 3

\* no packet / no output written
NO_SEQ == 0 - 1

oneshot_unchanged == <<vars, evars, lat, cli>>

\* init_core_data: seq, packet_available and latest_packet start zeroed
OneShotStart ==
    [seq |-> 0, packet_available |-> 0, latest_packet |-> NO_SEQ,
     requests |-> {}, responses |-> {},
     pc |-> "idle", wanted |-> NO_SEQ,
     last |-> [op |-> "init", wanted |-> NO_SEQ, copied |-> NO_SEQ,
               rc |-> "none"]]

OneShotInit ==
    /\ thr = OneShotStart
    /\ lat = NULL
    /\ cli = NULL
    /\ RingInit
    /\ NoEngine

\* process_one_shot up to the send: packet.seq = data->seq++; sendto
one_shot_send(d, send_ok) ==
    IF send_ok
    THEN [d EXCEPT !.seq = @ + 1, !.wanted = d.seq,
                   !.requests = @ \cup {d.seq}, !.pc = "sent"]
    ELSE [d EXCEPT !.seq = @ + 1, !.wanted = d.seq, !.pc = "idle",
                   !.last = [op |-> "send_failed", wanted |-> d.seq,
                             copied |-> NO_SEQ, rc |-> "none"]]

\* rc is what pthread_cond_timedwait returned, if it was called.
\* if (data->packet_available) { memcpy from latest_packet; got_packet = 1;
\* packet_available = 0 } else report the xrun and write silence
one_shot_finish(d, rc) ==
    IF d.packet_available = 1
    THEN [d EXCEPT !.packet_available = 0, !.pc = "idle",
                   !.last = [op |-> "copied", wanted |-> d.wanted,
                             copied |-> d.latest_packet, rc |-> rc]]
    ELSE [d EXCEPT !.pc = "idle",
                   !.last = [op |-> "silence", wanted |-> d.wanted,
                             copied |-> NO_SEQ, rc |-> rc]]

\* pthread_mutex_lock; while (!data->packet_available): either the flag is
\* already set and the loop is skipped, or the callback blocks in
\* pthread_cond_timedwait, which releases the mutex
one_shot_lock(d) ==
    IF d.packet_available = 1 THEN one_shot_finish(d, "none")
    ELSE [d EXCEPT !.pc = "timedwait"]

\* receiver_thread in one-shot mode, under packet_mutex
receiver_store(d, s) ==
    [d EXCEPT !.responses = @ \ {s}, !.latest_packet = s,
              !.packet_available = 1]

\* ---- audio callback
OneShotSend ==
    \E send_ok \in BOOLEAN :
        /\ thr.pc = "idle"
        /\ thr.seq < MaxPeriods
        /\ thr' = one_shot_send(thr, send_ok)
        /\ UNCHANGED oneshot_unchanged

OneShotLock ==
    /\ thr.pc = "sent"
    /\ thr' = one_shot_lock(thr)
    /\ UNCHANGED oneshot_unchanged

\* pthread_cond_signal woke the callback: the loop test sees the flag
OneShotWake ==
    /\ thr.pc = "timedwait"
    /\ thr.packet_available = 1
    /\ thr' = one_shot_finish(thr, "signalled")
    /\ UNCHANGED oneshot_unchanged

\* rc == ETIMEDOUT: break, then test the flag once more
OneShotTimeout ==
    /\ thr.pc = "timedwait"
    /\ thr' = one_shot_finish(thr, "ETIMEDOUT")
    /\ UNCHANGED oneshot_unchanged

\* ---- peer and network
\* client_simulator: response_packet = packet; sendto
PeerResponds ==
    \E s \in thr.requests :
        /\ thr' = [thr EXCEPT !.requests = @ \ {s}, !.responses = @ \cup {s}]
        /\ UNCHANGED oneshot_unchanged

\* UDP drops a datagram
PacketLost ==
    /\ \/ \E s \in thr.requests : thr' = [thr EXCEPT !.requests = @ \ {s}]
       \/ \E s \in thr.responses : thr' = [thr EXCEPT !.responses = @ \ {s}]
    /\ UNCHANGED oneshot_unchanged

\* ---- receive thread: recvfrom returned a whole pwar_packet_t.  The store
\* needs packet_mutex, which the callback holds only inside its own steps.
ReceiverStores ==
    \E s \in thr.responses :
        /\ thr' = receiver_store(thr, s)
        /\ UNCHANGED oneshot_unchanged

OneShotNext ==
    \/ OneShotSend
    \/ OneShotLock
    \/ OneShotWake
    \/ OneShotTimeout
    \/ PeerResponds
    \/ PacketLost
    \/ ReceiverStores

OneShotSpec == OneShotInit /\ [][OneShotNext]_allvars

\* C40: the response a one-shot callback copies to its outputs is the response
\* to the packet that same callback sent; a response that arrives after its
\* callback timed out is never the output of a later period.
C40_ResponsePairsWithRequest ==
    thr.last.op = "copied" => thr.last.copied = thr.last.wanted

====
